---- MODULE Spec2Model ----
(***************************************************************************)
(* A model of the Terraform generator of the canvas application             *)
(* (src/lib/terraform-generator.ts).                                        *)
(*                                                                          *)
(* JavaScript values are tagged records.  A JavaScript string is a          *)
(* sequence of pieces: a piece is one character of user text ("a", "-")     *)
(* or a literal fragment of a template of the source ("  tags = {").  A     *)
(* multi-line text is the sequence of its lines (the text split at its      *)
(* line feeds), so the empty string is << <<>> >>.                          *)
(***************************************************************************)
EXTENDS Integers, Sequences, FiniteSets, TLC

VARIABLES
    nodes,               \* the nodes of the canvas: the first argument of
                         \* generateTerraform, body.nodes of a simulate request
    edges,               \* the edges of the canvas: the second argument of
                         \* generateTerraform, body.edges of a simulate request
    selectedNodeId,      \* selectedNodeId of the canvas state
    sanitizedNameCache,  \* module-level Map: raw name -> sanitized name
    dependencyCache,     \* module-level Map: node id -> dependency ids
    result               \* what the last call returned or threw

vars == <<nodes, edges, selectedNodeId, sanitizedNameCache, dependencyCache, result>>

(***************************************************************************)
(* JavaScript values                                                        *)
(***************************************************************************)
Undefined == [t |-> "undefined"]
Null == [t |-> "null"]
Str(cs) == [t |-> "string", v |-> cs]
Num(n) == [t |-> "number", v |-> n]
Bool(b) == [t |-> "boolean", v |-> b]
Arr(s) == [t |-> "array", v |-> s]
Obj(fields) == [t |-> "object", f |-> fields]

\* ToBoolean: undefined, null, '', 0 and false are falsy
Truthy(x) ==
    CASE x.t = "undefined" -> FALSE
      [] x.t = "null" -> FALSE
      [] x.t = "string" -> x.v # <<>>
      [] x.t = "number" -> x.v # 0
      [] x.t = "boolean" -> x.v
      [] OTHER -> TRUE

\* Array.isArray
IsArray(x) == x.t = "array"

\* property access o.k on an object: undefined when the key is absent
Get(o, k) == IF k \in DOMAIN o.f THEN o.f[k] ELSE Undefined

\* reading a property of undefined or null raises a TypeError
IsNullish(x) == x.t \in {"undefined", "null"}

(***************************************************************************)
(* Strings and texts                                                        *)
(***************************************************************************)
\* Array.prototype.join on strings without line feeds, separator one piece
RECURSIVE JoinPieces(_, _)
JoinPieces(ss, sep) ==
    IF ss = <<>> THEN <<>>
    ELSE IF Len(ss) = 1 THEN ss[1]
    ELSE ss[1] \o <<sep>> \o JoinPieces(Tail(ss), sep)

\* a + b on multi-line texts: the last line of a continues with the first of b
TextConcat(a, b) ==
    SubSeq(a, 1, Len(a) - 1) \o <<a[Len(a)] \o b[1]>> \o Tail(b)

EmptyText == << <<>> >>

\* the separator '\n\n' as a text: three empty lines
DoubleNewline == << <<>>, <<>>, <<>> >>

\* blocks.join('\n\n') on multi-line texts
RECURSIVE JoinBlocks(_)
JoinBlocks(bs) ==
    IF bs = <<>> THEN EmptyText
    ELSE IF Len(bs) = 1 THEN bs[1]
    ELSE TextConcat(TextConcat(bs[1], DoubleNewline), JoinBlocks(Tail(bs)))

WhitespacePieces == {" ", "  ", "\n", "\r", "\t"}

\* String.prototype.trim on a one-line string whose blanks are whole pieces
RECURSIVE TrimStart(_)
TrimStart(s) ==
    IF s # <<>> /\ Head(s) \in WhitespacePieces THEN TrimStart(Tail(s)) ELSE s

RECURSIVE TrimEnd(_)
TrimEnd(s) ==
    IF s # <<>> /\ s[Len(s)] \in WhitespacePieces
    THEN TrimEnd(SubSeq(s, 1, Len(s) - 1)) ELSE s

Trim(s) == TrimEnd(TrimStart(s))

(***************************************************************************)
(* Map (insertion-ordered sequence of entries)                              *)
(***************************************************************************)
MapHas(m, k) == \E i \in 1..Len(m) : m[i].key = k

MapGet(m, k) == m[CHOOSE i \in 1..Len(m) : m[i].key = k].value

MapSet(m, k, val) ==
    IF MapHas(m, k)
    THEN [i \in 1..Len(m) |-> IF m[i].key = k THEN [key |-> k, value |-> val] ELSE m[i]]
    ELSE Append(m, [key |-> k, value |-> val])

(***************************************************************************)
(* sanitizeResourceName                                                     *)
(***************************************************************************)
LowerLetters ==
    {"a","b","c","d","e","f","g","h","i","j","k","l","m",
     "n","o","p","q","r","s","t","u","v","w","x","y","z"}

Digits == {"0","1","2","3","4","5","6","7","8","9"}

\* String.prototype.toLowerCase, one character
LowerChar(c) ==
    CASE c = "A" -> "a" [] c = "B" -> "b" [] c = "C" -> "c" [] c = "D" -> "d"
      [] c = "E" -> "e" [] c = "F" -> "f" [] c = "G" -> "g" [] c = "H" -> "h"
      [] c = "I" -> "i" [] c = "J" -> "j" [] c = "K" -> "k" [] c = "L" -> "l"
      [] c = "M" -> "m" [] c = "N" -> "n" [] c = "O" -> "o" [] c = "P" -> "p"
      [] c = "Q" -> "q" [] c = "R" -> "r" [] c = "S" -> "s" [] c = "T" -> "t"
      [] c = "U" -> "u" [] c = "V" -> "v" [] c = "W" -> "w" [] c = "X" -> "x"
      [] c = "Y" -> "y" [] c = "Z" -> "z" [] OTHER -> c

ToLowerCase(s) == [i \in 1..Len(s) |-> LowerChar(s[i])]

\* .replace(/[^a-z0-9_]/g, '_')
ReplaceInvalidChars(s) ==
    [i \in 1..Len(s) |->
        IF s[i] \in LowerLetters \cup Digits \cup {"_"} THEN s[i] ELSE "_"]

\* .replace(/^[0-9]/, '_'): the leading digit itself is replaced
ReplaceLeadingDigit(s) ==
    IF s # <<>> /\ Head(s) \in Digits THEN <<"_">> \o Tail(s) ELSE s

\* .replace(/_+/g, '_')
RECURSIVE CollapseUnderscores(_)
CollapseUnderscores(s) ==
    IF s = <<>> THEN <<>>
    ELSE IF Len(s) >= 2 /\ s[1] = "_" /\ s[2] = "_" THEN CollapseUnderscores(Tail(s))
    ELSE <<Head(s)>> \o CollapseUnderscores(Tail(s))

ResourceFallback == <<"r","e","s","o","u","r","c","e">>

\* mutant: the runs of underscores are collapsed before the leading digit is
\* replaced
SanitizeCompute_CollapseFirst(name) ==
    LET sanitized ==
            ReplaceLeadingDigit(CollapseUnderscores(ReplaceInvalidChars(ToLowerCase(name))))
    IN  IF sanitized = <<>> THEN ResourceFallback ELSE sanitized

\* mutant: a leading digit is not replaced
SanitizeCompute_KeepsLeadingDigit(name) ==
    LET sanitized == CollapseUnderscores(ReplaceInvalidChars(ToLowerCase(name)))
    IN  IF sanitized = <<>> THEN ResourceFallback ELSE sanitized

\* .replace(/^_+|_+$/g, '')
RECURSIVE StripUnderscores(_)
StripUnderscores(s) ==
    IF s # <<>> /\ Head(s) = "_" THEN StripUnderscores(Tail(s))
    ELSE IF s # <<>> /\ s[Len(s)] = "_" THEN StripUnderscores(SubSeq(s, 1, Len(s) - 1))
    ELSE s

\* mutant: the leading and trailing underscores are removed at the end
SanitizeCompute_Stripped(name) ==
    LET sanitized ==
            StripUnderscores(
                CollapseUnderscores(ReplaceLeadingDigit(ReplaceInvalidChars(ToLowerCase(name)))))
    IN  IF sanitized = <<>> THEN ResourceFallback ELSE sanitized

\* mutant: the runs of underscores are not collapsed
SanitizeCompute_NoCollapse(name) ==
    LET sanitized == ReplaceLeadingDigit(ReplaceInvalidChars(ToLowerCase(name)))
    IN  IF sanitized = <<>> THEN ResourceFallback ELSE sanitized

\* the computation of a cache miss (lines 192-199)
SanitizeCompute(name) ==
    LET sanitized ==
            CollapseUnderscores(ReplaceLeadingDigit(ReplaceInvalidChars(ToLowerCase(name))))
    IN  IF sanitized = <<>> THEN ResourceFallback ELSE sanitized

\* sanitizeResourceName(name) on the name cache c: [value, cache]
sanitizeResourceName(name, c) ==
    IF MapHas(c, name)
    THEN [value |-> MapGet(c, name), cache |-> c]
    ELSE [value |-> SanitizeCompute(name), cache |-> MapSet(c, name, SanitizeCompute(name))]

(***************************************************************************)
(* escapeHCLString                                                          *)
(***************************************************************************)
\* String.prototype.replace(/c/g, to) for a one-character pattern
RECURSIVE ReplaceAll(_, _, _)
ReplaceAll(s, c, to) ==
    IF s = <<>> THEN <<>>
    ELSE (IF Head(s) = c THEN to ELSE <<Head(s)>>) \o ReplaceAll(Tail(s), c, to)

\* mutant: the backslashes are replaced last
escapeHCLString_BackslashLast(str) ==
    ReplaceAll(
      ReplaceAll(
        ReplaceAll(
          ReplaceAll(
            ReplaceAll(str, "\"", <<"\\", "\"">>),
            "\n", <<"\\", "n">>),
          "\r", <<"\\", "r">>),
        "\t", <<"\\", "t">>),
      "\\", <<"\\", "\\">>)

escapeHCLString(str) ==
    ReplaceAll(
      ReplaceAll(
        ReplaceAll(
          ReplaceAll(
            ReplaceAll(str, "\\", <<"\\", "\\">>),
            "\"", <<"\\", "\"">>),
          "\n", <<"\\", "n">>),
        "\r", <<"\\", "r">>),
      "\t", <<"\\", "t">>)

(***************************************************************************)
(* Dependencies                                                             *)
(***************************************************************************)
\* a callee's outcome: a return value or a raised error, with the two caches
Return(val, names, deps) ==
    [threw |-> FALSE, value |-> val, names |-> names, deps |-> deps]

\* value is the error's message
Throw(message, names, deps) ==
    [threw |-> TRUE, value |-> message, names |-> names, deps |-> deps]

\* the message of a TypeError raised by the engine (its text is not modelled)
TypeErrorMessage == <<"TypeError">>

RECURSIVE MapSources(_)
MapSources(es) ==
    IF es = <<>> THEN <<>> ELSE <<Get(Head(es), "source")>> \o MapSources(Tail(es))

\* a sequence without its repeated elements
RECURSIVE Dedup(_)
Dedup(q) ==
    IF q = <<>> THEN <<>>
    ELSE LET init == Dedup(SubSeq(q, 1, Len(q) - 1))
         IN  IF \E i \in 1..Len(init) : init[i] = q[Len(q)]
             THEN init ELSE Append(init, q[Len(q)])

\* mutant: the dependencies are deduplicated
findDependencies_Dedup(nodeId, es, names, deps) ==
    IF MapHas(deps, nodeId) THEN Return(MapGet(deps, nodeId), names, deps)
    ELSE IF \E i \in 1..Len(es) : IsNullish(es[i]) THEN Throw(TypeErrorMessage, names, deps)
    ELSE LET IsTarget(e) == Get(e, "target") = nodeId
             dependencies == Dedup(MapSources(SelectSeq(es, IsTarget)))
         IN  Return(dependencies, names, MapSet(deps, nodeId, dependencies))

\* findDependencies(nodeId, edges): reading edge.target of a null entry raises
findDependencies(nodeId, es, names, deps) ==
    IF MapHas(deps, nodeId) THEN Return(MapGet(deps, nodeId), names, deps)
    ELSE IF \E i \in 1..Len(es) : IsNullish(es[i]) THEN Throw(TypeErrorMessage, names, deps)
    ELSE LET IsTarget(e) == Get(e, "target") = nodeId
             dependencies == MapSources(SelectSeq(es, IsTarget))
         IN  Return(dependencies, names, MapSet(deps, nodeId, dependencies))

\* nodes.find(n => n.id === depId): reading n.id of a null entry raises
RECURSIVE FindNode(_, _)
FindNode(ns, depId) ==
    IF ns = <<>> THEN [threw |-> FALSE, value |-> Undefined]
    ELSE IF IsNullish(Head(ns)) THEN [threw |-> TRUE, value |-> Undefined]
    ELSE IF Get(Head(ns), "id") = depId THEN [threw |-> FALSE, value |-> Head(ns)]
    ELSE FindNode(Tail(ns), depId)

\* mutant: the reference type is 'aws_' followed by the kind
TerraformType_KindPrefix(type) ==
    CASE type = Str(<<"ec2">>) -> "aws_ec2"
      [] type = Str(<<"lambda">>) -> "aws_lambda"
      [] type = Str(<<"vpc">>) -> "aws_vpc"
      [] type = Str(<<"alb">>) -> "aws_alb"
      [] type = Str(<<"apigateway">>) -> "aws_apigateway"
      [] type = Str(<<"s3">>) -> "aws_s3"
      [] type = Str(<<"rds">>) -> "aws_rds"
      [] type = Str(<<"dynamodb">>) -> "aws_dynamodb"
      [] type = Str(<<"waf">>) -> "aws_waf"
      [] OTHER -> "aws_resource"

\* the type mapping of lines 265-274
TerraformType(type) ==
    CASE type = Str(<<"ec2">>) -> "aws_instance"
      [] type = Str(<<"lambda">>) -> "aws_lambda_function"
      [] type = Str(<<"vpc">>) -> "aws_vpc"
      [] type = Str(<<"alb">>) -> "aws_lb"
      [] type = Str(<<"apigateway">>) -> "aws_apigatewayv2_api"
      [] type = Str(<<"s3">>) -> "aws_s3_bucket"
      [] type = Str(<<"rds">>) -> "aws_db_instance"
      [] type = Str(<<"dynamodb">>) -> "aws_dynamodb_table"
      [] type = Str(<<"waf">>) -> "aws_wafv2_web_acl"
      [] OTHER -> "aws_resource"

\* a || b
OrElse(a, b) == IF Truthy(a) THEN a ELSE b

\* mutant: the reference is named after the id of the node, not its label
DependencyRef_UsesId(depId, ns, names) ==
    LET found == FindNode(ns, depId) IN
    IF found.threw THEN [threw |-> TRUE, value |-> Null, names |-> names]
    ELSE IF ~Truthy(found.value) THEN [threw |-> FALSE, value |-> Null, names |-> names]
    ELSE
      LET depNode == found.value
          san == sanitizeResourceName(Get(depNode, "id").v, names)
      IN  IF IsNullish(Get(depNode, "data"))
          THEN [threw |-> TRUE, value |-> Null, names |-> names]
          ELSE [threw |-> FALSE,
                value |-> Str(<<TerraformType(Get(depNode, "type")), ".">> \o san.value),
                names |-> san.cache]

\* the callback of dependencies.map (lines 259-276) for one dependency: value
\* is the reference, or null when no node has that id
DependencyRef(depId, ns, names) ==
    LET found == FindNode(ns, depId) IN
    IF found.threw THEN [threw |-> TRUE, value |-> Null, names |-> names]
    ELSE IF ~Truthy(found.value) THEN [threw |-> FALSE, value |-> Null, names |-> names]
    ELSE
      LET depNode == found.value
          data == Get(depNode, "data")
      IN
      IF IsNullish(data) THEN [threw |-> TRUE, value |-> Null, names |-> names]
      ELSE
        LET name == OrElse(Get(data, "label"), Get(depNode, "id")) IN
        IF name.t # "string" THEN [threw |-> TRUE, value |-> Null, names |-> names]
        ELSE
          LET san == sanitizeResourceName(name.v, names)
          IN  [threw |-> FALSE,
               value |-> Str(<<TerraformType(Get(depNode, "type")), ".">> \o san.value),
               names |-> san.cache]

\* dependencies.map(...) over the dependencies in order; the first error ends it
RECURSIVE MapDependencyRefs(_, _, _)
MapDependencyRefs(depIds, ns, names) ==
    IF depIds = <<>> THEN [threw |-> FALSE, value |-> <<>>, names |-> names]
    ELSE
      LET r == DependencyRef(Head(depIds), ns, names) IN
      IF r.threw THEN [threw |-> TRUE, value |-> <<>>, names |-> r.names]
      ELSE LET rest == MapDependencyRefs(Tail(depIds), ns, r.names)
           IN  [rest EXCEPT !.value = <<r.value>> \o @]

\* the strings of an array of references; join writes null as the empty string
RECURSIVE RefStrings(_)
RefStrings(refs) ==
    IF refs = <<>> THEN <<>>
    ELSE <<IF Head(refs).t = "string" THEN Head(refs).v ELSE <<>> >> \o RefStrings(Tail(refs))

\* lines 276-282, given the outcome of dependencies.map: the null references
\* are filtered out, and what is left is joined into the depends_on line
DependsOnOfMapped(mapped, deps) ==
    IF mapped.threw THEN Throw(TypeErrorMessage, mapped.names, deps)
    ELSE
      LET dependencyRefs == SelectSeq(mapped.value, Truthy) IN
      IF Len(dependencyRefs) = 0 THEN Return(<<>>, mapped.names, deps)
      ELSE Return(<<"  ", "depends_on = [">>
                      \o JoinPieces(RefStrings(dependencyRefs), ", ")
                      \o <<"]", "\n">>,
                  mapped.names, deps)

\* lines 255-276, given the outcome of findDependencies: no dependency gives
\* the empty string, else the dependencies are mapped to references
DependsOnOfFound(found, ns) ==
    IF found.threw THEN found
    ELSE IF Len(found.value) = 0 THEN Return(<<>>, found.names, found.deps)
    ELSE DependsOnOfMapped(MapDependencyRefs(found.value, ns, found.names), found.deps)

\* mutant: the null references are not filtered out
generateDependsOn_NoFilter(nodeId, es, ns, names, deps) ==
    LET found == findDependencies(nodeId, es, names, deps) IN
    IF found.threw THEN found
    ELSE IF Len(found.value) = 0 THEN Return(<<>>, found.names, found.deps)
    ELSE
      LET mapped == MapDependencyRefs(found.value, ns, found.names) IN
      IF mapped.threw THEN Throw(TypeErrorMessage, mapped.names, found.deps)
      ELSE Return(<<"  ", "depends_on = [">>
                      \o JoinPieces(RefStrings(mapped.value), ", ")
                      \o <<"]", "\n">>,
                  mapped.names, found.deps)

\* generateDependsOn: the depends_on line with its indentation and line feed,
\* or the empty string
generateDependsOn(nodeId, es, ns, names, deps) ==
    DependsOnOfFound(findDependencies(nodeId, es, names, deps), ns)

(***************************************************************************)
(* Resource block emitters                                                  *)
(***************************************************************************)
\* `  key = "${escapeHCLString(v)}"` when v is truthy, else no line
StringLine(prefix, v) ==
    IF Truthy(v) THEN << <<prefix>> \o escapeHCLString(v.v) \o <<"\"">> >> ELSE <<>>

\* template interpolation ${v} of a number, boolean or null
Interpolate(v) ==
    CASE v.t = "number" -> <<ToString(v.v)>>
      [] v.t = "boolean" -> <<IF v.v THEN "true" ELSE "false">>
      [] v.t = "null" -> <<"null">>
      [] v.t = "string" -> v.v
      [] OTHER -> <<"undefined">>

\* the resource header line
HeaderLine(type, resourceName) ==
    <<"resource \"", type, "\" \"">> \o resourceName \o <<"\" {">>

\* the tags block, preceded by its empty line
TagsLines(node, resourceName) ==
    LET label == Get(Get(node, "data"), "label")
    IN  << <<>>,
           <<"  tags = {">>,
           <<"    Name = \"">>
               \o escapeHCLString(IF Truthy(label) THEN label.v ELSE resourceName)
               \o <<"\"">>,
           <<"  }">> >>

\* if (dependsOn) { lines.push(''); lines.push(dependsOn.trim()) }
DependsOnLines(dependsOn) ==
    IF dependsOn # <<>> THEN << <<>>, Trim(dependsOn) >> ELSE <<>>

\* the end of an emitter, given the outcome d of generateDependsOn: the
\* depends_on lines and the closing brace after the lines so far
CloseBlock(d, lines) ==
    IF d.threw THEN d
    ELSE Return(lines \o DependsOnLines(d.value) \o << <<"}">> >>, d.names, d.deps)

\* the shared shape of an emitter: the lines before the tags read the
\* properties record (a TypeError when it is undefined or null), then the tags,
\* then generateDependsOn, then the closing brace
EmitBlock(node, resourceName, es, ns, names, deps, lines) ==
    IF IsNullish(Get(Get(node, "data"), "properties"))
    THEN Throw(TypeErrorMessage, names, deps)
    ELSE CloseBlock(generateDependsOn(Get(node, "id"), es, ns, names, deps),
                    lines \o TagsLines(node, resourceName))

Props(node) == Get(Get(node, "data"), "properties")

\* props.k, read only after the properties record is known to be an object
Prop(node, k) == IF IsNullish(Props(node)) THEN Undefined ELSE Get(Props(node), k)

\* mutant: the security groups are written without the test of their number
generateEC2Block_NoLengthTest(node, resourceName, es, ns, names, deps) ==
    LET sgs == Prop(node, "securityGroups")
        sgList == IF IsArray(sgs)
                  THEN JoinPieces([i \in 1..Len(sgs.v) |->
                                      <<"\"">> \o escapeHCLString(sgs.v[i].v) \o <<"\"">>],
                                  ", ")
                  ELSE <<>>
        lines ==
            << HeaderLine("aws_instance", resourceName) >>
            \o StringLine("  ami           = \"", Prop(node, "ami"))
            \o StringLine("  instance_type = \"", Prop(node, "instanceType"))
            \o StringLine("  key_name      = \"", Prop(node, "keyName"))
            \o (IF Truthy(sgs) /\ IsArray(sgs)
                THEN << <<"  security_groups = [">> \o sgList \o <<"]">> >>
                ELSE <<>>)
    IN  EmitBlock(node, resourceName, es, ns, names, deps, lines)

generateEC2Block(node, resourceName, es, ns, names, deps) ==
    LET sgs == Prop(node, "securityGroups")
        sgList == IF IsArray(sgs)
                  THEN JoinPieces([i \in 1..Len(sgs.v) |->
                                      <<"\"">> \o escapeHCLString(sgs.v[i].v) \o <<"\"">>],
                                  ", ")
                  ELSE <<>>
        lines ==
            << HeaderLine("aws_instance", resourceName) >>
            \o StringLine("  ami           = \"", Prop(node, "ami"))
            \o StringLine("  instance_type = \"", Prop(node, "instanceType"))
            \o StringLine("  key_name      = \"", Prop(node, "keyName"))
            \o (IF Truthy(sgs) /\ IsArray(sgs) /\ Len(sgs.v) > 0
                THEN << <<"  security_groups = [">> \o sgList \o <<"]">> >>
                ELSE <<>>)
    IN  EmitBlock(node, resourceName, es, ns, names, deps, lines)

\* the versioning lines appended to the S3 block (lines 361-373)
VersioningText(resourceName) ==
    << <<>>, <<>>,
       <<"resource \"", "aws_s3_bucket_versioning", "\" \"">>
           \o resourceName \o <<"_versioning", "\" {">>,
       <<"  bucket = ", "aws_s3_bucket", ".">> \o resourceName \o <<".id">>,
       <<>>,
       <<"  versioning_configuration {">>,
       <<"    status = \"Enabled\"">>,
       <<"  }">>,
       <<"}">> >>

\* the encryption lines appended to the S3 block (lines 376-390)
EncryptionText(resourceName) ==
    << <<>>, <<>>,
       <<"resource \"", "aws_s3_bucket_server_side_encryption_configuration", "\" \"">>
           \o resourceName \o <<"_encryption", "\" {">>,
       <<"  bucket = ", "aws_s3_bucket", ".">> \o resourceName \o <<".id">>,
       <<>>,
       <<"  rule {">>,
       <<"    apply_server_side_encryption_by_default {">>,
       <<"      sse_algorithm = \"AES256\"">>,
       <<"    }">>,
       <<"  }">>,
       <<"}">> >>

\* block += text, when the block was produced
AppendToBlock(block, text) ==
    IF block.threw THEN block ELSE [block EXCEPT !.value = TextConcat(@, text)]

\* mutant: the encryption block is emitted only inside the versioning branch
generateS3Block_Nested(node, resourceName, es, ns, names, deps) ==
    LET lines ==
            << HeaderLine("aws_s3_bucket", resourceName) >>
            \o StringLine("  bucket = \"", Prop(node, "bucketName"))
    IN  AppendToBlock(
          EmitBlock(node, resourceName, es, ns, names, deps, lines),
          IF Truthy(Prop(node, "versioning"))
          THEN IF Truthy(Prop(node, "encryption"))
               THEN TextConcat(VersioningText(resourceName), EncryptionText(resourceName))
               ELSE VersioningText(resourceName)
          ELSE EmptyText)

generateS3Block(node, resourceName, es, ns, names, deps) ==
    LET lines ==
            << HeaderLine("aws_s3_bucket", resourceName) >>
            \o StringLine("  bucket = \"", Prop(node, "bucketName"))
    IN  AppendToBlock(
          AppendToBlock(
            EmitBlock(node, resourceName, es, ns, names, deps, lines),
            IF Truthy(Prop(node, "versioning"))
            THEN VersioningText(resourceName) ELSE EmptyText),
          IF Truthy(Prop(node, "encryption"))
          THEN EncryptionText(resourceName) ELSE EmptyText)

\* mutant: the allocated storage is written whenever it is defined
generateRDSBlock_WhenDefined(node, resourceName, es, ns, names, deps) ==
    LET lines ==
            << HeaderLine("aws_db_instance", resourceName) >>
            \o (IF Prop(node, "allocatedStorage") # Undefined
                THEN << <<"  allocated_storage    = ">>
                            \o Interpolate(Prop(node, "allocatedStorage")) >>
                ELSE <<>>)
            \o StringLine("  engine               = \"", Prop(node, "engine"))
            \o StringLine("  instance_class       = \"", Prop(node, "instanceClass"))
            \o StringLine("  db_name              = \"", Prop(node, "dbName"))
            \o << <<"  username             = \"admin\"">>,
                  <<"  password             = \"changeme123\"">>,
                  <<"  skip_final_snapshot  = true">> >>
    IN  EmitBlock(node, resourceName, es, ns, names, deps, lines)

generateRDSBlock(node, resourceName, es, ns, names, deps) ==
    LET lines ==
            << HeaderLine("aws_db_instance", resourceName) >>
            \o (IF Truthy(Prop(node, "allocatedStorage"))
                THEN << <<"  allocated_storage    = ">>
                            \o Interpolate(Prop(node, "allocatedStorage")) >>
                ELSE <<>>)
            \o StringLine("  engine               = \"", Prop(node, "engine"))
            \o StringLine("  instance_class       = \"", Prop(node, "instanceClass"))
            \o StringLine("  db_name              = \"", Prop(node, "dbName"))
            \o << <<"  username             = \"admin\"">>,
                  <<"  password             = \"changeme123\"">>,
                  <<"  skip_final_snapshot  = true">> >>
    IN  EmitBlock(node, resourceName, es, ns, names, deps, lines)

generateLambdaBlock(node, resourceName, es, ns, names, deps) ==
    LET lines ==
            << HeaderLine("aws_lambda_function", resourceName) >>
            \o StringLine("  function_name = \"", Prop(node, "functionName"))
            \o StringLine("  runtime       = \"", Prop(node, "runtime"))
            \o StringLine("  handler       = \"", Prop(node, "handler"))
            \o << <<"  role          = aws_iam_role.lambda_role.arn">>,
                  <<"  filename      = \"lambda_function.zip\"">> >>
            \o (IF Truthy(Prop(node, "memory"))
                THEN << <<"  memory_size   = ">> \o Interpolate(Prop(node, "memory")) >>
                ELSE <<>>)
    IN  EmitBlock(node, resourceName, es, ns, names, deps, lines)

generateVPCBlock(node, resourceName, es, ns, names, deps) ==
    LET lines ==
            << HeaderLine("aws_vpc", resourceName) >>
            \o StringLine("  cidr_block           = \"", Prop(node, "cidrBlock"))
            \o (IF Prop(node, "enableDnsHostnames") # Undefined
                THEN << <<"  enable_dns_hostnames = ">>
                            \o Interpolate(Prop(node, "enableDnsHostnames")) >>
                ELSE <<>>)
            \o (IF Prop(node, "enableDnsSupport") # Undefined
                THEN << <<"  enable_dns_support   = ">>
                            \o Interpolate(Prop(node, "enableDnsSupport")) >>
                ELSE <<>>)
    IN  EmitBlock(node, resourceName, es, ns, names, deps, lines)

InternalScheme == Str(<<"i","n","t","e","r","n","a","l">>)

generateALBBlock(node, resourceName, es, ns, names, deps) ==
    LET lines ==
            << HeaderLine("aws_lb", resourceName) >>
            \o StringLine("  name               = \"", Prop(node, "name"))
            \o << <<"  load_balancer_type = \"application\"">> >>
            \o (IF Truthy(Prop(node, "scheme"))
                THEN << <<"  internal           = ">>
                            \o Interpolate(Bool(Prop(node, "scheme") = InternalScheme)) >>
                ELSE <<>>)
            \o StringLine("  ip_address_type    = \"", Prop(node, "ipAddressType"))
            \o << <<"  subnets            = []  # Add subnet IDs">> >>
    IN  EmitBlock(node, resourceName, es, ns, names, deps, lines)

generateAPIGatewayBlock(node, resourceName, es, ns, names, deps) ==
    LET lines ==
            << HeaderLine("aws_apigatewayv2_api", resourceName) >>
            \o StringLine("  name          = \"", Prop(node, "name"))
            \o StringLine("  protocol_type = \"", Prop(node, "protocolType"))
            \o (IF Truthy(Prop(node, "corsEnabled"))
                THEN << <<>>,
                        <<"  cors_configuration {">>,
                        <<"    allow_origins = [\"*\"]">>,
                        <<"    allow_methods = [\"*\"]">>,
                        <<"    allow_headers = [\"*\"]">>,
                        <<"  }">> >>
                ELSE <<>>)
    IN  EmitBlock(node, resourceName, es, ns, names, deps, lines)

generateDynamoDBBlock(node, resourceName, es, ns, names, deps) ==
    LET lines ==
            << HeaderLine("aws_dynamodb_table", resourceName) >>
            \o StringLine("  name         = \"", Prop(node, "tableName"))
            \o StringLine("  billing_mode = \"", Prop(node, "billingMode"))
            \o StringLine("  hash_key     = \"", Prop(node, "hashKey"))
            \o << <<>>,
                  <<"  attribute {">>,
                  <<"    name = \"">>
                      \o escapeHCLString(OrElse(Prop(node, "hashKey"), Str(<<"i","d">>)).v)
                      \o <<"\"">>,
                  <<"    type = \"S\"">>,
                  <<"  }">> >>
    IN  EmitBlock(node, resourceName, es, ns, names, deps, lines)

BlockAction == Str(<<"B","L","O","C","K">>)

generateWAFBlock(node, resourceName, es, ns, names, deps) ==
    LET lines ==
            << HeaderLine("aws_wafv2_web_acl", resourceName) >>
            \o StringLine("  name  = \"", Prop(node, "name"))
            \o StringLine("  scope = \"", Prop(node, "scope"))
            \o << <<>>,
                  <<"  default_action {">>,
                  (IF Prop(node, "defaultAction") = BlockAction
                   THEN <<"    block {}">> ELSE <<"    allow {}">>),
                  <<"  }">>,
                  <<>>,
                  <<"  visibility_config {">>,
                  <<"    cloudwatch_metrics_enabled = true">>,
                  <<"    metric_name                = \"waf-metric\"">>,
                  <<"    sampled_requests_enabled   = true">>,
                  <<"  }">> >>
    IN  EmitBlock(node, resourceName, es, ns, names, deps, lines)

(***************************************************************************)
(* generateResourceBlock and generateTerraform                              *)
(***************************************************************************)
generateResourceBlock(node, es, ns, names, deps) ==
    LET data == Get(node, "data") IN
    IF IsNullish(data) \/ ~Truthy(Get(data, "label"))
    THEN Throw(<<"Node ">> \o Interpolate(Get(node, "id")) \o <<" is missing required data">>,
               names, deps)
    ELSE
      LET san == sanitizeResourceName(OrElse(Get(data, "label"), Get(node, "id")).v, names)
          resourceName == san.value
          type == Get(node, "type")
      IN
      CASE type = Str(<<"ec2">>) ->
               generateEC2Block(node, resourceName, es, ns, san.cache, deps)
        [] type = Str(<<"lambda">>) ->
               generateLambdaBlock(node, resourceName, es, ns, san.cache, deps)
        [] type = Str(<<"vpc">>) ->
               generateVPCBlock(node, resourceName, es, ns, san.cache, deps)
        [] type = Str(<<"alb">>) ->
               generateALBBlock(node, resourceName, es, ns, san.cache, deps)
        [] type = Str(<<"apigateway">>) ->
               generateAPIGatewayBlock(node, resourceName, es, ns, san.cache, deps)
        [] type = Str(<<"s3">>) ->
               generateS3Block(node, resourceName, es, ns, san.cache, deps)
        [] type = Str(<<"rds">>) ->
               generateRDSBlock(node, resourceName, es, ns, san.cache, deps)
        [] type = Str(<<"dynamodb">>) ->
               generateDynamoDBBlock(node, resourceName, es, ns, san.cache, deps)
        [] type = Str(<<"waf">>) ->
               generateWAFBlock(node, resourceName, es, ns, san.cache, deps)
        [] OTHER -> Return(EmptyText, san.cache, deps)

generateTerraformBlock ==
    << <<"terraform {">>,
       <<"  required_version = \">= 1.5.0\"">>,
       <<>>,
       <<"  required_providers {">>,
       <<"    aws = {">>,
       <<"      source  = \"hashicorp/aws\"">>,
       <<"      version = \"~> 5.0\"">>,
       <<"    }">>,
       <<"  }">>,
       <<"}">> >>

\* the guard of line 107
SkipNode(node) ==
    ~Truthy(node) \/ ~Truthy(Get(node, "id")) \/ ~Truthy(Get(node, "type"))

RECURSIVE ResourceBlocksLoop(_, _, _, _, _)

\* lines 113-121, given the outcome r of generateResourceBlock for one node:
\* a block that is not empty is pushed, an error is logged, and the loop goes
\* on with the caches as the call left them
AfterNode(r, todo, es, ns) ==
    LET rest == ResourceBlocksLoop(todo, es, ns, r.names, r.deps)
    IN  IF ~r.threw /\ r.value # EmptyText
        THEN [rest EXCEPT !.value = <<r.value>> \o @]
        ELSE rest

\* mutant: an error raised for one node is not caught
ResourceBlocksLoop_NoCatch(todo, es, ns, names, deps) ==
    IF todo = <<>> THEN Return(<<>>, names, deps)
    ELSE IF SkipNode(Head(todo)) THEN ResourceBlocksLoop(Tail(todo), es, ns, names, deps)
    ELSE
      LET r == generateResourceBlock(Head(todo), es, ns, names, deps)
          rest == ResourceBlocksLoop(Tail(todo), es, ns, r.names, r.deps)
      IN  IF r.threw THEN r
          ELSE IF r.value # EmptyText /\ ~rest.threw
          THEN [rest EXCEPT !.value = <<r.value>> \o @]
          ELSE rest

\* mutant: the loop ends at the first node that gives no block
ResourceBlocksLoop_Break(todo, es, ns, names, deps) ==
    IF todo = <<>> THEN Return(<<>>, names, deps)
    ELSE IF SkipNode(Head(todo)) THEN Return(<<>>, names, deps)
    ELSE
      LET r == generateResourceBlock(Head(todo), es, ns, names, deps)
          rest == ResourceBlocksLoop(Tail(todo), es, ns, r.names, r.deps)
      IN  IF ~r.threw /\ r.value # EmptyText
          THEN [rest EXCEPT !.value = <<r.value>> \o @]
          ELSE Return(<<>>, r.names, r.deps)

\* the loop of lines 106-122 over the nodes still to visit: value is the list
\* of resource blocks; an error raised for one node is caught and logged
ResourceBlocksLoop(todo, es, ns, names, deps) ==
    IF todo = <<>> THEN Return(<<>>, names, deps)
    ELSE IF SkipNode(Head(todo)) THEN ResourceBlocksLoop(Tail(todo), es, ns, names, deps)
    ELSE AfterNode(generateResourceBlock(Head(todo), es, ns, names, deps),
                   Tail(todo), es, ns)

NoResourcesMarker == << <<"# No resources to generate">> >>

NoValidResourcesMarker == << <<"# No valid resources to generate">> >>

InvalidInputMessage == <<"Invalid input: nodes and edges must be arrays">>

\* mutant: without the marker, the terraform block and '' are joined alone
CombineBlocks_NoMarker(resourceBlocks) ==
    JoinBlocks(<<generateTerraformBlock, EmptyText>> \o resourceBlocks)

\* mutant: no empty block after the terraform block
CombineBlocks_NoEmptyBlock(resourceBlocks) ==
    IF Len(resourceBlocks) = 0 THEN NoValidResourcesMarker
    ELSE JoinBlocks(<<generateTerraformBlock>> \o resourceBlocks)

\* lines 124-132: the marker when no block was produced, else the terraform
\* block, '' and the resource blocks joined by '\n\n'
CombineBlocks(resourceBlocks) ==
    IF Len(resourceBlocks) = 0 THEN NoValidResourcesMarker
    ELSE JoinBlocks(<<generateTerraformBlock, EmptyText>> \o resourceBlocks)

\* the return of lines 124-132, given the outcome of the loop
ReturnCombined(loop) ==
    IF loop.threw THEN loop
    ELSE Return(CombineBlocks(loop.value), loop.names, loop.deps)

\* mutant: no check for an empty node array
GenerateBody_NoEmptyCheck(ns, es, names, deps) ==
    IF ~IsArray(ns) \/ ~IsArray(es) THEN Throw(InvalidInputMessage, names, deps)
    ELSE
      LET loop == ResourceBlocksLoop(ns.v, es.v, ns.v, names, <<>>)
      IN  IF loop.threw THEN loop
          ELSE Return(CombineBlocks(loop.value), loop.names, loop.deps)

\* mutant: the check for an empty node array comes before the array checks
GenerateBody_EmptyCheckFirst(ns, es, names, deps) ==
    IF IsArray(ns) /\ Len(ns.v) = 0 THEN Return(NoResourcesMarker, names, deps)
    ELSE IF ~IsArray(ns) \/ ~IsArray(es) THEN Throw(InvalidInputMessage, names, deps)
    ELSE
      LET loop == ResourceBlocksLoop(ns.v, es.v, ns.v, names, <<>>)
      IN  IF loop.threw THEN loop
          ELSE Return(CombineBlocks(loop.value), loop.names, loop.deps)

\* mutant: the dependency cache is not cleared
GenerateBody_NoClear(ns, es, names, deps) ==
    IF ~IsArray(ns) \/ ~IsArray(es) THEN Throw(InvalidInputMessage, names, deps)
    ELSE IF Len(ns.v) = 0 THEN Return(NoResourcesMarker, names, deps)
    ELSE ReturnCombined(ResourceBlocksLoop(ns.v, es.v, ns.v, names, deps))

\* the body of the outer try (lines 86-132)
GenerateBody(ns, es, names, deps) ==
    IF ~IsArray(ns) \/ ~IsArray(es) THEN Throw(InvalidInputMessage, names, deps)
    ELSE IF Len(ns.v) = 0 THEN Return(NoResourcesMarker, names, deps)
    ELSE ReturnCombined(ResourceBlocksLoop(ns.v, es.v, ns.v, names, <<>>))

\* the outer catch (lines 133-136): the message of any error is wrapped
CatchAndWrap(r) ==
    IF r.threw
    THEN [r EXCEPT !.value = <<"Terraform generation failed: ">> \o r.value]
    ELSE r

\* generateTerraform(ns, es) on the two caches: what it returns or throws,
\* and the caches afterwards; the outer catch wraps the message of any error
generateTerraform(ns, es, names, deps) ==
    CatchAndWrap(GenerateBody(ns, es, names, deps))

(***************************************************************************)
(* Inputs                                                                   *)
(***************************************************************************)
MaxNodes == 2
MaxEdges == 3

RECURSIVE SeqsUpTo(_, _)
SeqsUpTo(S, n) ==
    IF n = 0 THEN {<<>>}
    ELSE LET shorter == SeqsUpTo(S, n - 1)
         IN  shorter \cup {Append(q, x) : q \in {p \in shorter : Len(p) = n - 1}, x \in S}

NodeObj(id, type, data) == Obj([id |-> id, type |-> type, data |-> data])

NodeData(label, properties) == Obj([label |-> label, properties |-> properties])

EdgeObj(id, source, target) == Obj([id |-> id, source |-> source, target |-> target])

Id1 == Str(<<"n", "1">>)
Id2 == Str(<<"n", "2">>)
IdMissing == Str(<<"z">>)

LabelOf(id) == IF id = Id1 THEN Str(<<"W", "e", "b">>) ELSE Str(<<"d", "-", "1">>)

\* a properties record for each kind, with the fields of its emitter
SampleProps(kind) ==
    CASE kind = "ec2" ->
             Obj([instanceType |-> Str(<<"t", "2">>), ami |-> Str(<<"a", "m", "i">>),
                  keyName |-> Str(<<>>), securityGroups |-> Arr(<<>>)])
      [] kind = "s3" ->
             Obj([bucketName |-> Str(<<>>), versioning |-> Bool(FALSE),
                  encryption |-> Bool(TRUE)])
      [] kind = "rds" ->
             Obj([engine |-> Str(<<"p", "g">>), instanceClass |-> Str(<<"d", "b">>),
                  allocatedStorage |-> Num(20), dbName |-> Str(<<>>)])
      [] kind = "lambda" ->
             Obj([functionName |-> Str(<<"f">>), runtime |-> Str(<<"n", "o", "d", "e">>),
                  handler |-> Str(<<"h">>), memory |-> Num(128)])
      [] kind = "vpc" ->
             Obj([cidrBlock |-> Str(<<"1", "0", "/", "8">>),
                  enableDnsHostnames |-> Bool(TRUE), enableDnsSupport |-> Bool(FALSE)])
      [] kind = "alb" ->
             Obj([name |-> Str(<<"l", "b">>), scheme |-> InternalScheme,
                  ipAddressType |-> Str(<<"i", "p", "v", "4">>)])
      [] kind = "apigateway" ->
             Obj([name |-> Str(<<"a", "p", "i">>), protocolType |-> Str(<<"H", "T", "T", "P">>),
                  corsEnabled |-> Bool(TRUE)])
      [] kind = "dynamodb" ->
             Obj([tableName |-> Str(<<"t">>), billingMode |-> Str(<<"P">>),
                  hashKey |-> Str(<<>>)])
      [] kind = "waf" ->
             Obj([name |-> Str(<<"w">>), scope |-> Str(<<"R">>),
                  defaultAction |-> BlockAction])
      [] OTHER -> Obj(<<>>)

SupportedKinds ==
    {"ec2", "lambda", "vpc", "alb", "apigateway", "s3", "rds", "dynamodb", "waf"}

\* a well-formed node of the given kind
ValidNode(id, kind) == NodeObj(id, Str(<<kind>>), NodeData(LabelOf(id), SampleProps(kind)))

\* node entries: well-formed nodes of supported kinds and of an unknown kind,
\* and every malformed entry the generator guards against
StructuralNodes ==
    { Null,
      NodeObj(Undefined, Str(<<"ec2">>), NodeData(LabelOf(Id1), SampleProps("ec2"))),
      ValidNode(Id1, "ec2"),
      ValidNode(Id1, "s3"),
      NodeObj(Id1, Str(<<"ec2">>), Undefined),
      ValidNode(Id2, "ec2"),
      ValidNode(Id2, "custom"),
      NodeObj(Id2, Undefined, NodeData(LabelOf(Id2), SampleProps("ec2"))),
      NodeObj(Id2, Str(<<"ec2">>), NodeData(Str(<<>>), SampleProps("ec2"))),
      NodeObj(Id2, Str(<<"ec2">>), NodeData(LabelOf(Id2), Undefined)) }

Edge(s, t) == EdgeObj(Str(<<"e">>), s, t)

\* edge lists tried with every list of structural nodes
StructuralEdgeLists ==
    { <<>>,
      <<Edge(IdMissing, Id1)>>,
      <<Edge(Id2, Id1)>>,
      <<Edge(Id1, Id2)>>,
      <<Edge(Id1, Id1), Edge(Id2, Id1)>>,
      <<Edge(IdMissing, Id1), Edge(IdMissing, Id2), Edge(Id1, Id2)>> }

StructuralInputs ==
    {<<Arr(ns), Arr(es)>> : ns \in SeqsUpTo(StructuralNodes, MaxNodes),
                            es \in StructuralEdgeLists}

\* well-formed nodes with every list of edges among them, to a missing node,
\* and null entries
GraphNodes == {ValidNode(Id1, "ec2"), ValidNode(Id2, "s3")}

GraphEdges ==
    {Null, Edge(Id1, Id1), Edge(Id2, Id1), Edge(Id1, Id2), Edge(IdMissing, Id1)}

GraphInputs ==
    {<<Arr(ns), Arr(es)>> : ns \in SeqsUpTo(GraphNodes, MaxNodes),
                            es \in SeqsUpTo(GraphEdges, MaxEdges)}

\* lists of nodes of every supported kind and of an unknown kind
KindNodes == {ValidNode(Id1, kind) : kind \in SupportedKinds \cup {"custom"}}

KindInputs ==
    {<<Arr(ns), Arr(es)>> : ns \in SeqsUpTo(KindNodes, MaxNodes),
                            es \in {<<>>, <<Edge(Id1, Id1)>>}}

\* one S3 node with every setting of its two capabilities
S3Nodes ==
    {NodeObj(Id1, Str(<<"s3">>),
             NodeData(LabelOf(Id1),
                      Obj([bucketName |-> b, versioning |-> v, encryption |-> e])))
        : b \in {Undefined, Str(<<"b">>)},
          v \in {Undefined, Bool(FALSE), Bool(TRUE)},
          e \in {Undefined, Bool(FALSE), Bool(TRUE)}}

S3Inputs ==
    {<<Arr(<<n>>), Arr(es)>> : n \in S3Nodes, es \in {<<>>, <<Edge(Id1, Id1)>>}}

\* arguments that are not arrays
TopLevelValues(entry) ==
    {Undefined, Null, Str(<<"x">>), Obj(<<>>), Arr(<<>>), Arr(<<entry>>)}

TopLevelInputs ==
    {<<ns, es>> : ns \in TopLevelValues(ValidNode(Id1, "ec2")),
                  es \in TopLevelValues(Edge(Id1, Id1))}

Inputs == StructuralInputs \cup GraphInputs \cup KindInputs \cup S3Inputs \cup TopLevelInputs

(***************************************************************************)
(* The state machine                                                        *)
(***************************************************************************)
NotCalled == [called |-> FALSE]

Init ==
    /\ \E in \in Inputs : nodes = in[1] /\ edges = in[2]
    /\ selectedNodeId = Null
    /\ sanitizedNameCache = <<>>
    /\ dependencyCache = <<>>
    /\ result = NotCalled

\* a call generateTerraform(nodes, edges)
GenerateTerraform ==
    \E r \in {generateTerraform(nodes, edges, sanitizedNameCache, dependencyCache)} :
    /\ result' = [called |-> TRUE, threw |-> r.threw, value |-> r.value]
    /\ sanitizedNameCache' = r.names
    /\ dependencyCache' = r.deps
    /\ UNCHANGED <<nodes, edges, selectedNodeId>>

ClearGeneratorCaches ==
    /\ sanitizedNameCache' = <<>>
    /\ dependencyCache' = <<>>
    /\ UNCHANGED <<nodes, edges, selectedNodeId, result>>

Next == GenerateTerraform \/ ClearGeneratorCaches

Spec == Init /\ [][Next]_vars

(***************************************************************************)
(* Labels: one node whose label is any short string, and calls of           *)
(* sanitizeResourceName on the label and on the names it has returned       *)
(***************************************************************************)
MaxLabelLen == 3
MaxEscapedLen == 2

\* an upper-case and a lower-case letter, a digit, the underscore and a
\* character that is none of these
LabelAlphabet == {"A", "b", "1", "_", "-"}

\* the five characters escapeHCLString replaces, and a letter
EscapeAlphabet == {"\\", "\"", "\n", "\r", "\t", "n"}

\* 'My-Web Server 2024!', 'my---bucket!!!', '123-server' and '   '
ExampleLabels ==
    { <<"M","y","-","W","e","b"," ","S","e","r","v","e","r"," ","2","0","2","4","!">>,
      <<"m","y","-","-","-","b","u","c","k","e","t","!","!","!">>,
      <<"1","2","3","-","s","e","r","v","e","r">>,
      <<" "," "," ">> }

\* labels that hold braces: '}', '{', '{}' and 'a}{'
BraceLabels == { <<"}">>, <<"{">>, <<"{", "}">>, <<"a", "}", "{">> }

Labels ==
    SeqsUpTo(LabelAlphabet, MaxLabelLen) \cup SeqsUpTo(EscapeAlphabet, MaxEscapedLen)
        \cup ExampleLabels \cup BraceLabels

IdLabelled == Str(<<"N", "-", "7">>)

\* an EC2 node and an S3 node with both capabilities, with the given label
LabelledNodes(label) ==
    { NodeObj(IdLabelled, Str(<<"ec2">>), NodeData(Str(label), SampleProps("ec2"))),
      NodeObj(IdLabelled, Str(<<"s3">>),
              NodeData(Str(label),
                       Obj([bucketName |-> Str(<<"b">>), versioning |-> Bool(TRUE),
                            encryption |-> Bool(TRUE)]))) }

\* the node alone, without an edge or with an edge from the node to itself
LabelInputs ==
    {<<Arr(<<n>>), Arr(es)>> : n \in UNION {LabelledNodes(l) : l \in Labels},
                               es \in {<<>>, <<Edge(IdLabelled, IdLabelled)>>}}

InitLabels ==
    /\ \E in \in LabelInputs : nodes = in[1] /\ edges = in[2]
    /\ selectedNodeId = Null
    /\ sanitizedNameCache = <<>>
    /\ dependencyCache = <<>>
    /\ result = NotCalled

\* the names sanitizeResourceName is called with: the label of the node, and
\* every name the function has returned so far
SanitizeArguments ==
    {Get(Get(nodes.v[1], "data"), "label").v}
        \cup {sanitizedNameCache[i].value : i \in 1..Len(sanitizedNameCache)}

\* the record of a call sanitizeResourceName(name): its argument, whether the
\* cache held it, and what it returned
SanitizeCall(name, cached, value) ==
    [called |-> FALSE, name |-> name, cached |-> cached, value |-> value]

\* a call sanitizeResourceName(name)
SanitizeResourceName ==
    \E name \in SanitizeArguments :
    \E r \in {sanitizeResourceName(name, sanitizedNameCache)} :
        /\ result' = SanitizeCall(name, MapHas(sanitizedNameCache, name), r.value)
        /\ sanitizedNameCache' = r.cache
        /\ UNCHANGED <<nodes, edges, selectedNodeId, dependencyCache>>

NextLabels == GenerateTerraform \/ ClearGeneratorCaches \/ SanitizeResourceName

SpecLabels == InitLabels /\ [][NextLabels]_vars

(***************************************************************************)
(* Properties: one node of each kind with every property of its emitter     *)
(* undefined, null or set                                                   *)
(***************************************************************************)
\* other values of the type of a sample value: zero and a negative number for
\* a number, a list of one string for the empty list, a string for the empty
\* string
OtherValues(v) ==
    CASE v.t = "number" -> {Num(0), Num(-1)}
      [] v = Arr(<<>>) -> {Arr(<<Str(<<"s", "g">>)>>)}
      [] v = Str(<<>>) -> {Str(<<"k">>)}
      [] OTHER -> {}

\* the property records of a kind: each field of the sample record is
\* undefined, null, the sample value or another value of its type
PropertyRecords(kind) ==
    LET sample == SampleProps(kind).f
        valuesOf(k) == {Undefined, Null, sample[k]} \cup OtherValues(sample[k])
        values == UNION {valuesOf(k) : k \in DOMAIN sample}
    IN  {Obj(f) : f \in {g \in [DOMAIN sample -> values] :
                            \A k \in DOMAIN sample : g[k] \in valuesOf(k)}}

PropertyNodes ==
    UNION {{NodeObj(Id1, Str(<<kind>>), NodeData(LabelOf(Id1), props))
               : props \in PropertyRecords(kind)} : kind \in SupportedKinds}

PropertyInputs == {<<Arr(<<n>>), Arr(<<>>)>> : n \in PropertyNodes}

InitProperties ==
    /\ \E in \in PropertyInputs : nodes = in[1] /\ edges = in[2]
    /\ selectedNodeId = Null
    /\ sanitizedNameCache = <<>>
    /\ dependencyCache = <<>>
    /\ result = NotCalled

SpecProperties == InitProperties /\ [][Next]_vars

(***************************************************************************)
(* Calls: generateTerraform called again and again with other arguments,    *)
(* the node ids being reused with other labels and other edges              *)
(***************************************************************************)
\* a node with the id of the EC2 node, of the kind of the other node and with
\* the label 'd_1', which differs from the label 'd-1' of the other node
RelabelledNode ==
    NodeObj(Id1, Str(<<"s3">>), NodeData(Str(<<"d", "_", "1">>), SampleProps("s3")))

CallNodeLists ==
    { <<>>,
      <<ValidNode(Id1, "ec2")>>,
      <<ValidNode(Id1, "ec2"), ValidNode(Id2, "s3")>>,
      <<ValidNode(Id2, "s3"), ValidNode(Id1, "ec2")>>,
      <<RelabelledNode>>,
      <<RelabelledNode, ValidNode(Id2, "s3")>> }

CallEdgeLists ==
    { <<>>,
      <<Edge(Id2, Id1)>>,
      <<Edge(Id1, Id2)>>,
      <<Edge(Id1, Id1), Edge(Id2, Id1)>> }

CallInputs ==
    {<<Arr(ns), Arr(es)>> : ns \in CallNodeLists, es \in CallEdgeLists}
        \cup {<<Null, Arr(<<>>)>>}

InitCalls ==
    /\ \E in \in CallInputs : nodes = in[1] /\ edges = in[2]
    /\ selectedNodeId = Null
    /\ sanitizedNameCache = <<>>
    /\ dependencyCache = <<>>
    /\ result = NotCalled

\* a call generateTerraform(ns, es) with any arguments, on the caches as the
\* calls before it left them
GenerateTerraformCall ==
    \E in \in CallInputs :
    \E r \in {generateTerraform(in[1], in[2], sanitizedNameCache, dependencyCache)} :
        /\ nodes' = in[1]
        /\ edges' = in[2]
        /\ result' = [called |-> TRUE, threw |-> r.threw, value |-> r.value]
        /\ sanitizedNameCache' = r.names
        /\ dependencyCache' = r.deps
        /\ UNCHANGED selectedNodeId

NextCalls == GenerateTerraformCall \/ ClearGeneratorCaches

SpecCalls == InitCalls /\ [][NextCalls]_vars

(***************************************************************************)
(* The canvas: the reducer that holds the nodes and edges given to the      *)
(* generator, edited by adding and deleting nodes and edges                 *)
(***************************************************************************)
MaxCanvasNodes == 2
MaxCanvasEdges == 2

Position(x, y) == Obj([x |-> Num(x), y |-> Num(y)])

\* a node as the canvas holds it
CanvasNode(id, kind) ==
    Obj([id |-> id, type |-> Str(<<kind>>), position |-> Position(0, 0),
         data |-> NodeData(LabelOf(id), SampleProps(kind))])

CanvasIds == {Id1, Id2}

EdgeIds == {Str(<<"e">>), Str(<<"f">>)}

\* the edges drawn: with one id between any two nodes, so that duplicates and
\* self-loops arise, and one edge with another id
CanvasEdges ==
    {EdgeObj(Str(<<"e">>), s, t) : s, t \in CanvasIds}
        \cup {EdgeObj(Str(<<"f">>), Id1, Id2)}

initialState == [nodes |-> <<>>, edges |-> <<>>, selectedNodeId |-> Null]

Action(type, payload) == [type |-> type, payload |-> payload]

\* { ...a, ...b } on two objects
Spread(a, b) ==
    Obj([k \in DOMAIN a.f \cup DOMAIN b.f |-> IF k \in DOMAIN b.f THEN b.f[k] ELSE a.f[k]])

\* { ...node, data: { ...node.data, ...data } }
WithData(node, data) ==
    Obj([node.f EXCEPT !.data = Spread(@, data)])

\* { ...node, position }
WithPosition(node, position) ==
    Obj([node.f EXCEPT !.position = position])

\* mutant: only the edges that leave the deleted node are removed
EdgesWithoutNode_SourceOnly(es, id) ==
    LET Keeps(edge) == Get(edge, "source") # id IN SelectSeq(es, Keeps)

\* lines 37-39: the edges that neither leave nor enter the deleted node
EdgesWithoutNode(es, id) ==
    LET Keeps(edge) == Get(edge, "source") # id /\ Get(edge, "target") # id
    IN  SelectSeq(es, Keeps)

canvasReducer(state, action) ==
    CASE action.type = "ADD_NODE" ->
             [state EXCEPT !.nodes = Append(@, action.payload)]
      [] action.type = "UPDATE_NODE" ->
             [state EXCEPT !.nodes =
                 [i \in 1..Len(@) |->
                     IF Get(@[i], "id") = action.payload.id
                     THEN WithData(@[i], action.payload.data) ELSE @[i]]]
      [] action.type = "DELETE_NODE" ->
             LET IsOther(node) == Get(node, "id") # action.payload
             IN  [nodes |-> SelectSeq(state.nodes, IsOther),
                  edges |-> EdgesWithoutNode(state.edges, action.payload),
                  selectedNodeId |->
                      IF state.selectedNodeId = action.payload
                      THEN Null ELSE state.selectedNodeId]
      [] action.type = "ADD_EDGE" ->
             [state EXCEPT !.edges = Append(@, action.payload)]
      [] action.type = "DELETE_EDGE" ->
             LET IsOther(edge) == Get(edge, "id") # action.payload
             IN  [state EXCEPT !.edges = SelectSeq(@, IsOther)]
      [] action.type = "SET_NODES" -> [state EXCEPT !.nodes = action.payload]
      [] action.type = "SET_EDGES" -> [state EXCEPT !.edges = action.payload]
      [] action.type = "SELECT_NODE" -> [state EXCEPT !.selectedNodeId = action.payload]
      [] action.type = "UPDATE_NODE_POSITION" ->
             [state EXCEPT !.nodes =
                 [i \in 1..Len(@) |->
                     IF Get(@[i], "id") = action.payload.id
                     THEN WithPosition(@[i], action.payload.position) ELSE @[i]]]
      [] OTHER -> state

\* the canvas state held in the variables
CanvasState == [nodes |-> nodes.v, edges |-> edges.v, selectedNodeId |-> selectedNodeId]

\* dispatch(action): the state becomes canvasReducer(state, action); result
\* keeps the last DELETE_NODE action that was dispatched
Dispatch(action) ==
    \E next \in {canvasReducer(CanvasState, action)} :
        /\ nodes' = Arr(next.nodes)
        /\ edges' = Arr(next.edges)
        /\ selectedNodeId' = next.selectedNodeId
        /\ result' = IF action.type = "DELETE_NODE"
                     THEN [called |-> TRUE, action |-> action]
                     ELSE result
        /\ UNCHANGED <<sanitizedNameCache, dependencyCache>>

NodeIdsOf(ns) == {Get(ns[i], "id") : i \in 1..Len(ns)}

InitCanvas ==
    /\ nodes = Arr(initialState.nodes)
    /\ edges = Arr(initialState.edges)
    /\ selectedNodeId = initialState.selectedNodeId
    /\ sanitizedNameCache = <<>>
    /\ dependencyCache = <<>>
    /\ result = NotCalled

\* a node dropped on the canvas: ids are not checked against the nodes held
AddNode ==
    /\ Len(nodes.v) < MaxCanvasNodes
    /\ \E id \in CanvasIds :
          Dispatch(Action("ADD_NODE", CanvasNode(id, IF id = Id1 THEN "ec2" ELSE "s3")))

\* the label of a node edited in the properties panel
UpdateNode ==
    Dispatch(Action("UPDATE_NODE",
                    [id |-> Id1, data |-> Obj([label |-> Str(<<"B", "-", "2">>)])]))

DeleteNode == \E id \in CanvasIds : Dispatch(Action("DELETE_NODE", id))

\* a connection drawn between two nodes of the canvas
AddEdge ==
    /\ Len(edges.v) < MaxCanvasEdges
    /\ \E edge \in CanvasEdges :
          /\ Get(edge, "source") \in NodeIdsOf(nodes.v)
          /\ Get(edge, "target") \in NodeIdsOf(nodes.v)
          /\ Dispatch(Action("ADD_EDGE", edge))

DeleteEdge == \E id \in EdgeIds : Dispatch(Action("DELETE_EDGE", id))

SelectNode == \E id \in CanvasIds \cup {Null} : Dispatch(Action("SELECT_NODE", id))

\* a node dragged on the canvas
UpdateNodePosition ==
    Dispatch(Action("UPDATE_NODE_POSITION", [id |-> Id2, position |-> Position(1, 0)]))

NextCanvas ==
    \/ AddNode
    \/ UpdateNode
    \/ DeleteNode
    \/ AddEdge
    \/ DeleteEdge
    \/ SelectNode
    \/ UpdateNodePosition

SpecCanvas == InitCanvas /\ [][NextCanvas]_vars

(***************************************************************************)
(* The simulate endpoint: a request with the nodes and edges of the canvas, *)
(* answered from the language model's answer or from the fallback           *)
(***************************************************************************)
MinSteps == 6
MaxSteps == 8

\* typeof
TypeOf(x) == IF x.t \in {"object", "array", "null"} THEN "object" ELSE x.t

\* property access x.k on a value that is neither undefined nor null
Member(x, k) == IF x.t = "object" THEN Get(x, k) ELSE Undefined

\* what a callee does: it returns a value or raises an error of a class
Returns(v) == [threw |-> FALSE, value |-> v]

Raises(class) == [threw |-> TRUE, error |-> class]

FALLBACK_SIMULATION ==
    Obj([steps |-> Arr(<< Str(<<"Initializing Terraform...">>),
                          Str(<<"Configuring AWS provider...">>),
                          Str(<<"Planning infrastructure changes...">>),
                          Str(<<"Creating resources...">>),
                          Str(<<"Applying configuration...">>),
                          Str(<<"Deployment complete!">>) >>),
         security_intercept |->
             Obj([detected |-> Bool(FALSE),
                  message |-> Str(<<"No issues detected">>),
                  fix_action |-> Str(<<"N/A">>)])])

\* nodes.some(n => n.type === 's3' || n.type === 'ec2'): it stops at the first
\* match, and reading n.type of a null entry raises
RECURSIVE detectSecurityRisk(_)
detectSecurityRisk(ns) ==
    IF ns = <<>> THEN Returns(FALSE)
    ELSE IF IsNullish(Head(ns)) THEN Raises("TypeError")
    ELSE IF Member(Head(ns), "type") \in {Str(<<"s3">>), Str(<<"ec2">>)} THEN Returns(TRUE)
    ELSE detectSecurityRisk(Tail(ns))

\* lines 98-126, on the security_intercept of a response with valid steps
ValidateIntercept(steps, intercept, expectedSecurityRisk) ==
    IF TypeOf(Member(intercept, "detected")) # "boolean" THEN Raises("JSONParseError")
    ELSE IF ~Truthy(Member(intercept, "message"))
            \/ TypeOf(Member(intercept, "message")) # "string"
    THEN Raises("JSONParseError")
    ELSE IF ~Truthy(Member(intercept, "fix_action"))
            \/ TypeOf(Member(intercept, "fix_action")) # "string"
    THEN Raises("JSONParseError")
    ELSE IF Member(intercept, "detected") # Bool(expectedSecurityRisk)
    THEN Raises("JSONParseError")
    ELSE Returns(Obj([steps |-> steps,
                      security_intercept |->
                          Obj([detected |-> Member(intercept, "detected"),
                               message |-> Member(intercept, "message"),
                               fix_action |-> Member(intercept, "fix_action")])]))

\* validateSimulation(response, expectedSecurityRisk): reading response.steps
\* of null raises a TypeError
validateSimulation(response, expectedSecurityRisk) ==
    IF IsNullish(response) THEN Raises("TypeError")
    ELSE IF ~IsArray(Member(response, "steps")) THEN Raises("JSONParseError")
    ELSE IF Len(Member(response, "steps").v) < MinSteps
            \/ Len(Member(response, "steps").v) > MaxSteps
    THEN Raises("JSONParseError")
    ELSE IF ~Truthy(Member(response, "security_intercept"))
            \/ TypeOf(Member(response, "security_intercept")) # "object"
    THEN Raises("JSONParseError")
    ELSE ValidateIntercept(Member(response, "steps"),
                           Member(response, "security_intercept"),
                           expectedSecurityRisk)

\* NextResponse.json(body, { status })
Response(status, body) == [status |-> status, body |-> body]

ErrorBody(message) == Obj([error |-> Str(<<message>>)])

\* lines 172-181: the fallback with the security_intercept of the risk
FallbackWithRisk(hasSecurityRisk) ==
    IF hasSecurityRisk
    THEN Obj([FALLBACK_SIMULATION.f EXCEPT !.security_intercept =
                 Obj([detected |-> Bool(TRUE),
                      message |-> Str(<<"Security Warning: Potential public access detected on S3 or EC2 resources">>),
                      fix_action |-> Str(<<"Apply security group restrictions and enable encryption">>)])])
    ELSE FALLBACK_SIMULATION

\* the outer catch (lines 189-218)
OuterCatch(class) ==
    CASE class = "BedrockTimeoutError" ->
             Response(504, ErrorBody("AI service timeout. Please try again."))
      [] class = "BedrockAuthError" ->
             Response(401, ErrorBody("Authentication failed. Check AWS credentials."))
      [] class = "JSONParseError" ->
             Response(500, ErrorBody("AI returned invalid response"))
      [] OTHER -> Response(500, ErrorBody("An unexpected error occurred."))

\* the inner try and catch (lines 158-188), given what the call of the model
\* and the validation of its answer did
InnerCatch(attempt, hasSecurityRisk) ==
    IF ~attempt.threw THEN Response(200, attempt.value)
    ELSE IF attempt.error \in {"BedrockTimeoutError", "BedrockAuthError", "JSONParseError"}
    THEN Response(200, FallbackWithRisk(hasSecurityRisk))
    ELSE OuterCatch(attempt.error)

\* lines 159-160: the answer of the model is validated when the call returns
Attempt(answer, hasSecurityRisk) ==
    IF answer.threw THEN answer ELSE validateSimulation(answer.value, hasSecurityRisk)

\* lines 152-188, given what detectSecurityRisk did
AfterRisk(risk, answer) ==
    IF risk.threw THEN OuterCatch(risk.error)
    ELSE InnerCatch(Attempt(answer, risk.value), risk.value)

\* POST on a request body with the given nodes and edges, the call of the
\* model doing what answer says
POST(bodyNodes, bodyEdges, answer) ==
    IF ~Truthy(bodyNodes) \/ ~IsArray(bodyNodes)
    THEN Response(400, ErrorBody("Invalid request: 'nodes' must be an array"))
    ELSE IF ~Truthy(bodyEdges) \/ ~IsArray(bodyEdges)
    THEN Response(400, ErrorBody("Invalid request: 'edges' must be an array"))
    ELSE AfterRisk(detectSecurityRisk(bodyNodes.v), answer)

\* the node lists of a request: nodes of a kind with a risk and without, and
\* null entries before and after them
SimulateNodeLists ==
    { <<>>,
      <<ValidNode(Id1, "s3")>>,
      <<ValidNode(Id1, "ec2")>>,
      <<ValidNode(Id2, "rds")>>,
      <<ValidNode(Id2, "rds"), ValidNode(Id1, "s3")>>,
      <<ValidNode(Id2, "rds"), ValidNode(Id2, "rds")>>,
      <<Null>>,
      <<ValidNode(Id1, "s3"), Null>>,
      <<Null, ValidNode(Id1, "s3")>> }

SimulateRequests ==
    {<<ns, es>> : ns \in {Arr(q) : q \in SimulateNodeLists} \cup {Undefined, Obj(<<>>)},
                  es \in {Arr(<<>>), Arr(<<Edge(Id1, Id2)>>), Undefined}}

StepsOfLength(n) == Arr([i \in 1..n |-> Str(<<"Creating resources...">>)])

\* the steps of an answer: missing, not an array, too few, enough, too many
AnswerSteps ==
    {Undefined, Obj(<<>>)}
        \cup {StepsOfLength(n) : n \in {MinSteps - 1, MinSteps, MaxSteps, MaxSteps + 1}}

\* the security_intercept of an answer
AnswerIntercepts ==
    {Undefined, Null}
        \cup {Obj([detected |-> d, message |-> m, fix_action |-> f]) :
                 d \in {Bool(TRUE), Bool(FALSE), Undefined},
                 m \in {Str(<<"Warning">>), Str(<<>>), Undefined},
                 f \in {Str(<<"Fix">>), Undefined}}

\* what invokeBedrockWithJSON does: it returns the JSON value of the text of
\* the model, or raises a timeout, an authentication error, a parse error or
\* another error
BedrockAnswers ==
    {Returns(Obj([steps |-> s, security_intercept |-> i])) :
         s \in AnswerSteps, i \in AnswerIntercepts}
        \cup {Returns(Null), Returns(Obj(<<>>)), Returns(Arr(<<>>))}
        \cup {Raises(c) : c \in {"BedrockTimeoutError", "BedrockAuthError",
                                 "JSONParseError", "Error"}}

InitSimulate ==
    /\ \E in \in SimulateRequests : nodes = in[1] /\ edges = in[2]
    /\ selectedNodeId = Null
    /\ sanitizedNameCache = <<>>
    /\ dependencyCache = <<>>
    /\ result = NotCalled

\* a POST of the request, the model answering in any of its ways: result holds
\* the answer and the response
Post ==
    \E answer \in BedrockAnswers :
    \E r \in {POST(nodes, edges, answer)} :
        /\ result' = [called |-> TRUE, answer |-> answer,
                      status |-> r.status, body |-> r.body]
        /\ UNCHANGED <<nodes, edges, selectedNodeId, sanitizedNameCache, dependencyCache>>

NextSimulate == Post

SpecSimulate == InitSimulate /\ [][NextSimulate]_vars

(***************************************************************************)
(* Reading the output text                                                  *)
(***************************************************************************)
Returned == result.called /\ ~result.threw

ArrayInputs == IsArray(nodes) /\ IsArray(edges)

OutLines == result.value

IsHeaderLine(l) == Len(l) >= 4 /\ l[1] = "resource \"" /\ l[Len(l)] = "\" {"

HeaderType(l) == l[2]

HeaderName(l) == SubSeq(l, 4, Len(l) - 1)

HeaderIdx == {i \in 1..Len(OutLines) : IsHeaderLine(OutLines[i])}

AuxiliaryTypes ==
    {"aws_s3_bucket_versioning", "aws_s3_bucket_server_side_encryption_configuration"}

PrimaryHeaderIdx == {i \in HeaderIdx : HeaderType(OutLines[i]) \notin AuxiliaryTypes}

\* the line that closes the block opened at line i
BlockEnd(i) ==
    CHOOSE j \in i..Len(OutLines) :
        /\ OutLines[j] = <<"}">>
        /\ \A k \in i..(j - 1) : OutLines[k] # <<"}">>

IsDependsOnLine(l) == l # <<>> /\ l[1] = "depends_on = ["

DependsOnIdx(i) == {j \in i..BlockEnd(i) : IsDependsOnLine(OutLines[j])}

\* the pieces of a list split at its ', ' separators
RECURSIVE SplitList(_, _)
SplitList(ps, cur) ==
    IF ps = <<>> THEN <<cur>>
    ELSE IF Head(ps) = ", " THEN <<cur>> \o SplitList(Tail(ps), <<>>)
    ELSE SplitList(Tail(ps), Append(cur, Head(ps)))

\* the references of a depends_on line
RefsOfLine(l) == SplitList(SubSeq(l, 2, Len(l) - 1), <<>>)

\* the references of the block opened at line i: none without a depends_on line
RefsOfBlock(i) ==
    IF DependsOnIdx(i) = {} THEN <<>>
    ELSE RefsOfLine(OutLines[CHOOSE j \in DependsOnIdx(i) : TRUE])

RefType(r) == r[1]

RefName(r) == SubSeq(r, 3, Len(r))

(***************************************************************************)
(* Reading the input                                                        *)
(***************************************************************************)
IsObject(x) == x.t = "object"

HasId(n) == IsObject(n) /\ Truthy(Get(n, "id"))

HasSupportedKind(n) ==
    IsObject(n) /\ Get(n, "type") \in {Str(<<k>>) : k \in SupportedKinds}

HasLabel(n) ==
    IsObject(n) /\ IsObject(Get(n, "data")) /\ Truthy(Get(Get(n, "data"), "label"))

HasProperties(n) ==
    IsObject(n) /\ IsObject(Get(n, "data")) /\ IsObject(Get(Get(n, "data"), "properties"))

\* a node that has an id, a supported kind, a non-empty label and properties
WellFormed(n) == HasId(n) /\ HasSupportedKind(n) /\ HasLabel(n) /\ HasProperties(n)

LabelChars(n) == Get(Get(n, "data"), "label").v

\* the header lines that declare node n: its declaration type and the
\* sanitized label
BlocksFor(n) ==
    {i \in HeaderIdx :
        /\ HeaderType(OutLines[i]) = TerraformType(Get(n, "type"))
        /\ HeaderName(OutLines[i]) = SanitizeCompute(LabelChars(n))}

(***************************************************************************)
(* Claims                                                                   *)
(***************************************************************************)
\* C1: generateTerraform with an empty node array and any edge array returns
\* exactly the text '# No resources to generate': not the empty string and no
\* declaration block.
C1_EmptyGraphMarker ==
    (result.called /\ ArrayInputs /\ Len(nodes.v) = 0) =>
        /\ ~result.threw
        /\ OutLines = << <<"# No resources to generate">> >>
        /\ OutLines # EmptyText
        /\ HeaderIdx = {}

\* an empty node array was passed with a non-empty edge array
C1_Witness ==
    /\ Returned /\ ArrayInputs
    /\ Len(nodes.v) = 0 /\ Len(edges.v) > 0
    /\ OutLines = NoResourcesMarker

\* C4: when nodes or edges is not an array the call raises 'Terraform
\* generation failed: Invalid input: nodes and edges must be arrays' and returns
\* no text, also for an empty node array with edges that are not an array.
C4_NonArrayRaises ==
    (result.called /\ ~ArrayInputs) =>
        /\ result.threw
        /\ result.value =
               <<"Terraform generation failed: ",
                 "Invalid input: nodes and edges must be arrays">>

\* an empty node array was passed with edges that are not an array
C4_Witness ==
    /\ result.called /\ result.threw
    /\ IsArray(nodes) /\ Len(nodes.v) = 0
    /\ ~IsArray(edges)

\* C5: for every pair of arrays, whatever their entries, generateTerraform
\* returns a text and does not raise.
C5_ArraysNeverRaise ==
    (result.called /\ ArrayInputs) => (~result.threw /\ Len(OutLines) >= 1)

\* a call returned although an emitter raised for a node: a null entry was
\* scanned while an edge's source was looked up
C5_Witness ==
    /\ Returned /\ ArrayInputs
    /\ \E i, j \in 1..Len(nodes.v) :
           /\ i < j /\ nodes.v[i] = Null /\ WellFormed(nodes.v[j])
           /\ \E k \in 1..Len(edges.v) :
                  /\ IsObject(edges.v[k])
                  /\ Get(edges.v[k], "target") = Get(nodes.v[j], "id")
    /\ OutLines = NoValidResourcesMarker

NodeIdx == 1..Len(nodes.v)

EdgeIdx == 1..Len(edges.v)

\* distinct entries of the node list are told apart by their ids, and
\* well-formed ones by their declaration headers
IdentifiableNodes ==
    \A i, j \in NodeIdx :
        (i # j /\ IsObject(nodes.v[i]) /\ IsObject(nodes.v[j])) =>
            /\ Get(nodes.v[i], "id") # Get(nodes.v[j], "id")
            /\ (WellFormed(nodes.v[i]) /\ WellFormed(nodes.v[j])) =>
                   \/ Get(nodes.v[i], "type") # Get(nodes.v[j], "type")
                   \/ SanitizeCompute(LabelChars(nodes.v[i]))
                          # SanitizeCompute(LabelChars(nodes.v[j]))

\* C2: for every edge (s,t) whose ends are ids of nodes with supported kinds
\* and non-empty labels, the block declared for t has a depends_on line with a
\* reference whose name is the sanitized label of s.
C2_EdgeBecomesDependency ==
    (Returned /\ ArrayInputs /\ IdentifiableNodes) =>
        \A k \in EdgeIdx : \A si, ti \in NodeIdx :
            LET e == edges.v[k]
                sn == nodes.v[si]
                tn == nodes.v[ti]
            IN  ( /\ IsObject(e)
                  /\ HasId(sn) /\ HasSupportedKind(sn) /\ HasLabel(sn)
                  /\ HasId(tn) /\ HasSupportedKind(tn) /\ HasLabel(tn)
                  /\ Get(e, "source") = Get(sn, "id")
                  /\ Get(e, "target") = Get(tn, "id") ) =>
                \A i \in BlocksFor(tn) :
                    /\ DependsOnIdx(i) # {}
                    /\ \E x \in 1..Len(RefsOfBlock(i)) :
                           RefName(RefsOfBlock(i)[x]) = SanitizeCompute(LabelChars(sn))

\* a block was declared for a node with a self-loop given twice and with an
\* edge from another declared node
C2_Witness ==
    /\ Returned /\ ArrayInputs /\ IdentifiableNodes
    /\ \E si, ti \in NodeIdx : \E a, b, c \in EdgeIdx :
           LET sn == nodes.v[si]
               tn == nodes.v[ti]
           IN  /\ si # ti /\ WellFormed(sn) /\ WellFormed(tn)
               /\ a # b /\ edges.v[a] = edges.v[b] /\ IsObject(edges.v[a])
               /\ Get(edges.v[a], "source") = Get(tn, "id")
               /\ Get(edges.v[a], "target") = Get(tn, "id")
               /\ IsObject(edges.v[c])
               /\ Get(edges.v[c], "source") = Get(sn, "id")
               /\ Get(edges.v[c], "target") = Get(tn, "id")
               /\ BlocksFor(tn) # {} /\ BlocksFor(sn) # {}
               /\ \A i \in BlocksFor(tn) : Len(RefsOfBlock(i)) = 3

\* C3: every node with an id, a supported kind, a non-empty label and
\* properties has its declaration header in the output, whatever the other
\* entries of the node list (null, or without id, kind, label or data) and
\* whatever edges exist (the entries of the edge list being edges).
C3_ValidNodeAlwaysEmitted ==
    (Returned /\ ArrayInputs /\ \A k \in EdgeIdx : IsObject(edges.v[k])) =>
        \A i \in NodeIdx : WellFormed(nodes.v[i]) => BlocksFor(nodes.v[i]) # {}

\* C6: when every node has an id, a non-empty label and properties, the number
\* of primary resource headers equals the number of nodes of a supported kind.
C6_OneHeaderPerSupportedNode ==
    (Returned /\ ArrayInputs
        /\ \A i \in NodeIdx :
               HasId(nodes.v[i]) /\ HasLabel(nodes.v[i]) /\ HasProperties(nodes.v[i])
        /\ \A k \in EdgeIdx : IsObject(edges.v[k])) =>
        Cardinality(PrimaryHeaderIdx)
            = Cardinality({i \in NodeIdx : HasSupportedKind(nodes.v[i])})

\* two nodes of one supported kind and the same label, with an edge, gave two
\* primary headers
C6_Witness ==
    /\ Returned /\ ArrayInputs /\ Len(nodes.v) = 2 /\ Len(edges.v) > 0
    /\ WellFormed(nodes.v[1]) /\ nodes.v[1] = nodes.v[2]
    /\ \A k \in EdgeIdx : IsObject(edges.v[k])
    /\ Cardinality(PrimaryHeaderIdx) = 2

\* the first node entry whose id is id, as nodes.find sees it
MatchOf(id) ==
    IF \E i \in NodeIdx : IsObject(nodes.v[i]) /\ Get(nodes.v[i], "id") = id
    THEN nodes.v[CHOOSE i \in NodeIdx :
                    /\ IsObject(nodes.v[i]) /\ Get(nodes.v[i], "id") = id
                    /\ \A j \in 1..(i - 1) :
                           ~(IsObject(nodes.v[j]) /\ Get(nodes.v[j], "id") = id)]
    ELSE Undefined

\* the edges into the node with this id whose source matches a node
RECURSIVE MatchedEdgesInto(_, _)
MatchedEdgesInto(id, es) ==
    IF es = <<>> THEN <<>>
    ELSE (IF IsObject(Head(es)) /\ Get(Head(es), "target") = id
             /\ IsObject(MatchOf(Get(Head(es), "source")))
          THEN <<Head(es)>> ELSE <<>>) \o MatchedEdgesInto(id, Tail(es))

\* the reference to node m: its declaration type, a dot, its sanitized label
\* (its id when the label is blank)
ReferenceTo(m) ==
    <<TerraformType(Get(m, "type")), ".">>
        \o SanitizeCompute(IF HasLabel(m) THEN LabelChars(m) ELSE Get(m, "id").v)

\* C7: the references of the depends_on line of t are, in edge-list order, one
\* per edge into t whose source matches a node: neither sorted nor deduplicated.
C7_ReferencesInEdgeOrder ==
    (Returned /\ ArrayInputs /\ IdentifiableNodes) =>
        \A ti \in NodeIdx : WellFormed(nodes.v[ti]) =>
            \A i \in BlocksFor(nodes.v[ti]) :
                LET into == MatchedEdgesInto(Get(nodes.v[ti], "id"), edges.v)
                IN  RefsOfBlock(i)
                        = [x \in 1..Len(into) |->
                              ReferenceTo(MatchOf(Get(into[x], "source")))]

\* a block lists three references in the order of its three incoming edges:
\* not in sorted order, and one of them twice
C7_Witness ==
    /\ Returned /\ ArrayInputs /\ IdentifiableNodes
    /\ \E i \in HeaderIdx :
           RefsOfBlock(i) = << <<"aws_s3_bucket", ".", "d", "_", "1">>,
                               <<"aws_instance", ".", "w", "e", "b">>,
                               <<"aws_instance", ".", "w", "e", "b">> >>

\* a well-formed reference: a declaration type, a dot and a non-empty name
WellFormedRef(r) ==
    /\ Len(r) >= 3 /\ r[2] = "."
    /\ r[1] \in {TerraformType(Str(<<k>>)) : k \in SupportedKinds \cup {"custom"}}
    /\ \A x \in 3..Len(r) : r[x] \in LowerLetters \cup Digits \cup {"_"}

\* C8: edges whose source matches no node are dropped: a block whose incoming
\* edges are all unmatched has no depends_on line, and otherwise the line holds
\* one well-formed reference per matched edge and nothing else.
C8_UnmatchedSourcesDropped ==
    (Returned /\ ArrayInputs /\ IdentifiableNodes) =>
        \A ti \in NodeIdx : WellFormed(nodes.v[ti]) =>
            \A i \in BlocksFor(nodes.v[ti]) :
                LET into == MatchedEdgesInto(Get(nodes.v[ti], "id"), edges.v)
                    line == OutLines[CHOOSE j \in DependsOnIdx(i) : TRUE]
                IN  IF into = <<>> THEN DependsOnIdx(i) = {}
                    ELSE /\ Cardinality(DependsOnIdx(i)) = 1
                         /\ line[Len(line)] = "]"
                         /\ Len(RefsOfLine(line)) = Len(into)
                         /\ \A x \in 1..Len(RefsOfLine(line)) :
                                WellFormedRef(RefsOfLine(line)[x])

\* one block whose only incoming edge names a missing node, and another with
\* one unmatched and one matched incoming edge
C8_Witness ==
    /\ Returned /\ ArrayInputs /\ IdentifiableNodes
    /\ \E ai, bi \in NodeIdx :
           LET an == nodes.v[ai]
               bn == nodes.v[bi]
           IN  /\ WellFormed(an) /\ WellFormed(bn)
               /\ BlocksFor(an) # {} /\ BlocksFor(bn) # {}
               /\ \E k, m \in EdgeIdx :
                      /\ edges.v[k] = Edge(IdMissing, Get(an, "id"))
                      /\ edges.v[m] = Edge(IdMissing, Get(bn, "id"))
               /\ MatchedEdgesInto(Get(an, "id"), edges.v) = <<>>
               /\ Len(MatchedEdgesInto(Get(bn, "id"), edges.v)) = 1
               /\ \A i \in BlocksFor(an) : DependsOnIdx(i) = {}
               /\ \A i \in BlocksFor(bn) : Len(RefsOfBlock(i)) = 1

(***************************************************************************)
(* Claims about the S3 emitter                                              *)
(***************************************************************************)
RECURSIVE HeadersOf(_)
HeadersOf(ls) ==
    IF ls = <<>> THEN <<>>
    ELSE (IF IsHeaderLine(Head(ls))
          THEN << <<HeaderType(Head(ls)), HeaderName(Head(ls))>> >> ELSE <<>>)
         \o HeadersOf(Tail(ls))

\* the block opened at line i has the line `  bucket = aws_s3_bucket.<name>.id`
RefersToBucket(i, name) ==
    \E j \in i..BlockEnd(i) :
        OutLines[j] = <<"  bucket = ", "aws_s3_bucket", ".">> \o name \o <<".id">>

OneS3Node ==
    /\ ArrayInputs /\ Len(nodes.v) = 1
    /\ WellFormed(nodes.v[1]) /\ Get(nodes.v[1], "type") = Str(<<"s3">>)
    /\ \A k \in EdgeIdx : IsObject(edges.v[k])

\* C9: for one S3 node with sanitized name n the headers are aws_s3_bucket n,
\* then aws_s3_bucket_versioning n_versioning exactly when versioning is on,
\* then aws_s3_bucket_server_side_encryption_configuration n_encryption exactly
\* when encryption is on; each auxiliary block refers to aws_s3_bucket.n.id.
C9_S3AuxiliaryBlocks ==
    (Returned /\ OneS3Node) =>
        LET n == SanitizeCompute(LabelChars(nodes.v[1]))
            props == Get(Get(nodes.v[1], "data"), "properties")
            versioning == Get(props, "versioning") = Bool(TRUE)
            encryption == Get(props, "encryption") = Bool(TRUE)
        IN  /\ HeadersOf(OutLines)
                   = << <<"aws_s3_bucket", n>> >>
                     \o (IF versioning
                         THEN << <<"aws_s3_bucket_versioning", n \o <<"_versioning">> >> >>
                         ELSE <<>>)
                     \o (IF encryption
                         THEN << <<"aws_s3_bucket_server_side_encryption_configuration",
                                   n \o <<"_encryption">> >> >>
                         ELSE <<>>)
            /\ \A i \in HeaderIdx \ PrimaryHeaderIdx : RefersToBucket(i, n)

\* an S3 node with encryption on and versioning off gave two headers
C9_Witness ==
    /\ Returned /\ OneS3Node
    /\ Get(Get(Get(nodes.v[1], "data"), "properties"), "versioning") = Bool(FALSE)
    /\ Get(Get(Get(nodes.v[1], "data"), "properties"), "encryption") = Bool(TRUE)
    /\ Len(HeadersOf(OutLines)) = 2

(***************************************************************************)
(* Claims about unknown kinds and the resource names                        *)
(***************************************************************************)
\* a list holding only one node of an unknown kind, with an id, a label and
\* properties
OnlyUnknownKind ==
    /\ ArrayInputs /\ Len(nodes.v) = 1
    /\ HasId(nodes.v[1]) /\ HasLabel(nodes.v[1]) /\ HasProperties(nodes.v[1])
    /\ Truthy(Get(nodes.v[1], "type")) /\ ~HasSupportedKind(nodes.v[1])

\* C11: with a node list holding only a node of an unknown kind (valid id and
\* label), generateTerraform returns the empty string.
C11_UnknownKindGivesEmpty ==
    (result.called /\ OnlyUnknownKind /\ Len(edges.v) = 0) =>
        (~result.threw /\ OutLines = EmptyText)

\* what sanitizeResourceName gave for each name it was called with
SanitizedPairs == {sanitizedNameCache[i] : i \in 1..Len(sanitizedNameCache)}

CountOf(s, c) == Cardinality({i \in 1..Len(s) : s[i] = c})

\* C12: when the name starts with a digit, sanitize keeps that digit and puts
\* an underscore before it ('123-server' gives '_123_server'), and no digit of
\* the input is lost.
C12_LeadingDigitKept ==
    \A e \in SanitizedPairs :
        /\ (e.key # <<>> /\ Head(e.key) \in Digits) =>
               (Len(e.value) >= 2 /\ e.value[1] = "_" /\ e.value[2] = Head(e.key))
        /\ \A d \in Digits : CountOf(e.value, d) = CountOf(e.key, d)
        /\ (e.key = <<"1","2","3","-","s","e","r","v","e","r">>) =>
               e.value = <<"_","1","2","3","_","s","e","r","v","e","r">>

\* the last call was a call of sanitizeResourceName
IsSanitizeCall == "name" \in DOMAIN result

\* C13: sanitize is idempotent: sanitizing a name that sanitize returned gives
\* that name again, whether the call is served from the name cache or computed.
C13_SanitizeIdempotent ==
    /\ \A e, f \in SanitizedPairs : f.key = e.value => f.value = e.value
    /\ IsSanitizeCall =>
           \A e \in SanitizedPairs :
               /\ result.name = e.key => result.value = e.value
               /\ result.name = e.value => result.value = e.value

\* a name that sanitize changed was sanitized, then what it gave was sanitized
\* twice: computed the first time, served from the cache the second time
C13_Witness ==
    /\ IsSanitizeCall /\ result.cached
    /\ \E e \in SanitizedPairs :
           /\ e.key # e.value
           /\ result.name = e.value
           /\ result.value = e.value

\* the identifier grammar ^[a-z_][a-z0-9_]*$
MatchesIdentifier(s) ==
    /\ s # <<>>
    /\ s[1] \in LowerLetters \cup {"_"}
    /\ \A i \in 1..Len(s) : s[i] \in LowerLetters \cup Digits \cup {"_"}

\* the characters of a piece of a header name: the suffix of an auxiliary name
\* is one piece
PieceChars(p) ==
    CASE p = "_versioning" -> <<"_","v","e","r","s","i","o","n","i","n","g">>
      [] p = "_encryption" -> <<"_","e","n","c","r","y","p","t","i","o","n">>
      [] OTHER -> <<p>>

RECURSIVE NameChars(_)
NameChars(name) ==
    IF name = <<>> THEN <<>> ELSE PieceChars(Head(name)) \o NameChars(Tail(name))

\* C14: for every input string sanitize returns a non-empty string matching
\* ^[a-z_][a-z0-9_]*$ ('resource' for the empty input), so every name in a
\* resource header of the output, the S3 auxiliary names included, matches it.
C14_NamesMatchIdentifier ==
    /\ \A e \in SanitizedPairs :
           /\ MatchesIdentifier(e.value)
           /\ e.key = <<>> => e.value = <<"r","e","s","o","u","r","c","e">>
    /\ IsSanitizeCall => MatchesIdentifier(result.value)
    /\ Returned =>
           \A i \in HeaderIdx : MatchesIdentifier(NameChars(HeaderName(OutLines[i])))

\* an S3 node whose label starts with a digit gave its three headers
C14_Witness ==
    /\ Returned /\ Cardinality(HeaderIdx) = 3
    /\ Head(LabelChars(nodes.v[1])) \in Digits
    /\ \E e \in SanitizedPairs : e.key = LabelChars(nodes.v[1])

\* C15: for every label that already satisfies ^[a-z_][a-z0-9_]*$,
\* sanitize(label) = label.
C15_IdentifierUnchanged ==
    \A e \in SanitizedPairs : MatchesIdentifier(e.key) => e.value = e.key

HasUnderscoreRun(s) == \E i \in 1..(Len(s) - 1) : s[i] = "_" /\ s[i + 1] = "_"

\* C15 as amended: for every label that satisfies ^[a-z_][a-z0-9_]*$ and has
\* no two underscores in a row, sanitize(label) = label.
C15_IdentifierWithoutRunUnchanged ==
    /\ \A e \in SanitizedPairs :
           (MatchesIdentifier(e.key) /\ ~HasUnderscoreRun(e.key)) => e.value = e.key
    /\ (IsSanitizeCall /\ MatchesIdentifier(result.name) /\ ~HasUnderscoreRun(result.name)) =>
           result.value = result.name

\* the label 'b_1' was sanitized by a call that computed it
C15_Witness ==
    /\ IsSanitizeCall /\ ~result.cached
    /\ result.name = <<"b", "_", "1">>
    /\ result.value = <<"b", "_", "1">>

UpperLetters ==
    {"A","B","C","D","E","F","G","H","I","J","K","L","M",
     "N","O","P","Q","R","S","T","U","V","W","X","Y","Z"}

\* a character that sanitize writes as an underscore
IsSeparator(c) == c \notin LowerLetters \cup UpperLetters \cup Digits

NoAdjacentSeparators(s) ==
    \A i \in 1..(Len(s) - 1) : ~(IsSeparator(s[i]) /\ IsSeparator(s[i + 1]))

StrippedName(label) ==
    LET stripped == StripUnderscores(SanitizeCompute(label))
    IN  IF stripped = <<>> THEN <<"r","e","s","o","u","r","c","e">> ELSE stripped

\* C17: for a node list with unique ids, supported kinds and non-empty labels,
\* the output has for every node a header of the node's declaration type whose
\* name is the label lowercased, with characters outside [a-z0-9_] written as
\* '_', a leading digit replaced, runs of '_' collapsed and the leading and
\* trailing underscores removed ('resource' if nothing is left).
C17_StrippedNameDeclared ==
    (Returned /\ ArrayInputs /\ \A j \in 1..Len(nodes.v) : WellFormed(nodes.v[j])) =>
        \A j \in 1..Len(nodes.v) :
            \E i \in HeaderIdx :
                /\ HeaderType(OutLines[i]) = TerraformType(Get(nodes.v[j], "type"))
                /\ HeaderName(OutLines[i]) = StrippedName(LabelChars(nodes.v[j]))

\* a label that is empty or holds only white space
IsBlank(label) == \A i \in 1..Len(label) : label[i] \in {" ", "\t", "\n", "\r"}

\* C18: a node whose label is blank or whitespace-only is still emitted, and
\* its declared name and every dependency reference to it are sanitize(node
\* id), not a name derived from the label.
C18_BlankLabelUsesId ==
    (result.called /\ ArrayInputs /\ Len(nodes.v) = 1
        /\ HasId(nodes.v[1]) /\ HasSupportedKind(nodes.v[1]) /\ HasProperties(nodes.v[1])
        /\ IsBlank(LabelChars(nodes.v[1]))) =>
        /\ Returned
        /\ \E i \in PrimaryHeaderIdx :
               /\ HeaderType(OutLines[i]) = TerraformType(Get(nodes.v[1], "type"))
               /\ HeaderName(OutLines[i]) = SanitizeCompute(Get(nodes.v[1], "id").v)
               /\ \A k \in 1..Len(RefsOfBlock(i)) :
                      RefName(RefsOfBlock(i)[k]) = SanitizeCompute(Get(nodes.v[1], "id").v)

\* the single-pass character map of the five reserved characters
EscapedChar(c) ==
    CASE c = "\\" -> <<"\\", "\\">>
      [] c = "\"" -> <<"\\", "\"">>
      [] c = "\n" -> <<"\\", "n">>
      [] c = "\r" -> <<"\\", "r">>
      [] c = "\t" -> <<"\\", "t">>
      [] OTHER -> <<c>>

RECURSIVE SinglePassEscape(_)
SinglePassEscape(s) ==
    IF s = <<>> THEN <<>> ELSE EscapedChar(Head(s)) \o SinglePassEscape(Tail(s))

IsNameTagLine(l) == Len(l) >= 2 /\ l[1] = "    Name = \"" /\ l[Len(l)] = "\""

\* what the Name tags of the output hold between their quotes
NameTagValues ==
    {SubSeq(OutLines[i], 2, Len(OutLines[i]) - 1) :
        i \in {j \in 1..Len(OutLines) : IsNameTagLine(OutLines[j])}}

\* C19: escape equals the single-pass character map (backslash, double quote,
\* LF, CR and TAB each to backslash and a character, every other character
\* unchanged): no backslash written by an earlier replacement is escaped
\* again, and a string without the five characters is unchanged.
C19_EscapeIsSinglePass ==
    (Returned /\ HeaderIdx # {}) =>
        /\ NameTagValues = {SinglePassEscape(LabelChars(nodes.v[1]))}
        /\ (\A i \in 1..Len(LabelChars(nodes.v[1])) :
                LabelChars(nodes.v[1])[i] \notin {"\\", "\"", "\n", "\r", "\t"})
               => NameTagValues = {LabelChars(nodes.v[1])}

\* the label of a backslash and a double quote was written as two backslashes,
\* a backslash and the quote
C19_Witness ==
    /\ Returned /\ HeaderIdx # {}
    /\ LabelChars(nodes.v[1]) = <<"\\", "\"">>
    /\ NameTagValues = {<<"\\", "\\", "\\", "\"">>}

(***************************************************************************)
(* Claims about the attribute lines                                         *)
(***************************************************************************)
\* the attribute lines the emitters write from a property: the kind, how the
\* line starts, and the property it is written from
PropertyLines ==
    { <<"ec2", "  ami           = \"", "ami">>,
      <<"ec2", "  instance_type = \"", "instanceType">>,
      <<"ec2", "  key_name      = \"", "keyName">>,
      <<"ec2", "  security_groups = [", "securityGroups">>,
      <<"s3", "  bucket = \"", "bucketName">>,
      <<"rds", "  allocated_storage    = ", "allocatedStorage">>,
      <<"rds", "  engine               = \"", "engine">>,
      <<"rds", "  instance_class       = \"", "instanceClass">>,
      <<"rds", "  db_name              = \"", "dbName">>,
      <<"lambda", "  function_name = \"", "functionName">>,
      <<"lambda", "  runtime       = \"", "runtime">>,
      <<"lambda", "  handler       = \"", "handler">>,
      <<"lambda", "  memory_size   = ", "memory">>,
      <<"vpc", "  cidr_block           = \"", "cidrBlock">>,
      <<"vpc", "  enable_dns_hostnames = ", "enableDnsHostnames">>,
      <<"vpc", "  enable_dns_support   = ", "enableDnsSupport">>,
      <<"alb", "  name               = \"", "name">>,
      <<"alb", "  internal           = ", "scheme">>,
      <<"alb", "  ip_address_type    = \"", "ipAddressType">>,
      <<"apigateway", "  name          = \"", "name">>,
      <<"apigateway", "  protocol_type = \"", "protocolType">>,
      <<"dynamodb", "  name         = \"", "tableName">>,
      <<"dynamodb", "  billing_mode = \"", "billingMode">>,
      <<"dynamodb", "  hash_key     = \"", "hashKey">>,
      <<"waf", "  name  = \"", "name">>,
      <<"waf", "  scope = \"", "scope">> }

\* C20: no emitter writes an attribute line for a property that is null or
\* undefined: every property-derived `key = value` line of the block belongs
\* to a property the node has.
C20_NoLineForAbsentProperty ==
    (Returned /\ ArrayInputs /\ Len(nodes.v) = 1 /\ WellFormed(nodes.v[1])) =>
        \A i \in 1..Len(OutLines) : \A pl \in PropertyLines :
            (/\ Get(nodes.v[1], "type") = Str(<<pl[1]>>)
             /\ OutLines[i] # <<>>
             /\ OutLines[i][1] = pl[2])
                => ~IsNullish(Prop(nodes.v[1], pl[3]))

\* one well-formed node of the given kind was given and the call returned
OneNodeOfKind(kind) ==
    /\ Returned /\ ArrayInputs /\ Len(nodes.v) = 1
    /\ WellFormed(nodes.v[1]) /\ Get(nodes.v[1], "type") = Str(<<kind>>)

\* the lines of the output that start with the given piece
LinesStarting(prefix) ==
    {OutLines[i] : i \in {j \in 1..Len(OutLines) :
                            OutLines[j] # <<>> /\ OutLines[j][1] = prefix}}

\* the decimal literal of the numbers given to the emitters
Literal(n) ==
    CASE n = 20 -> "20" [] n = 128 -> "128" [] n = -1 -> "-1" [] n = 0 -> "0"

\* the line of a numeric property: none for 0, the raw literal otherwise
NumericLine(property, prefix) ==
    LET v == Prop(nodes.v[1], property) IN
    (v.t = "number") =>
        LinesStarting(prefix) = IF v.v = 0 THEN {} ELSE {<<prefix, Literal(v.v)>>}

\* C21: a numeric property with value 0 is treated as absent: an RDS node with
\* allocatedStorage = 0 has no allocated_storage line and a Lambda node with
\* memory = 0 has no memory_size line, while any other number is written as a
\* raw unquoted literal.
C21_ZeroIsAbsent ==
    /\ OneNodeOfKind("rds") => NumericLine("allocatedStorage", "  allocated_storage    = ")
    /\ OneNodeOfKind("lambda") => NumericLine("memory", "  memory_size   = ")

\* an RDS node with allocatedStorage = 0 was declared without the line
C21_Witness ==
    /\ OneNodeOfKind("rds")
    /\ Prop(nodes.v[1], "allocatedStorage") = Num(0)
    /\ HeaderIdx # {}
    /\ LinesStarting("  allocated_storage    = ") = {}

\* the fixed line of the load balancer block
SubnetsPlaceholder == <<"  subnets            = []  # Add subnet IDs">>

\* an attribute line whose value is the empty list
IsEmptyListLine(l) ==
    \/ l = SubnetsPlaceholder
    \/ /\ Len(l) = 2
       /\ l[1] \in {"  security_groups = [", "depends_on = ["}
       /\ l[2] = "]"

EmptyListLines == {i \in 1..Len(OutLines) : IsEmptyListLine(OutLines[i])}

\* C22: an empty list never produces a line: no declaration block of any kind
\* holds an attribute line of the form `key = []`, and an EC2 node with
\* securityGroups = [] has no security_groups line.
C22_NoEmptyListLine ==
    Returned =>
        /\ EmptyListLines = {}
        /\ (OneNodeOfKind("ec2") /\ Prop(nodes.v[1], "securityGroups") = Arr(<<>>))
               => LinesStarting("  security_groups = [") = {}

\* C22 as amended: an empty list-typed property never produces a line (an EC2
\* node with securityGroups = [] has no security_groups line), and the only
\* line of the form `key = []` in any block is the fixed line
\* `subnets = []  # Add subnet IDs` of a load balancer block.
C22_OnlySubnetsPlaceholder ==
    Returned =>
        /\ \A i \in EmptyListLines :
               /\ OutLines[i] = SubnetsPlaceholder
               /\ \E h \in HeaderIdx :
                      /\ HeaderType(OutLines[h]) = "aws_lb"
                      /\ h < i /\ i < BlockEnd(h)
        /\ (OneNodeOfKind("ec2") /\ Prop(nodes.v[1], "securityGroups") = Arr(<<>>))
               => LinesStarting("  security_groups = [") = {}

\* an EC2 node with securityGroups = [] was declared without a line for them
C22_Witness ==
    /\ OneNodeOfKind("ec2")
    /\ Prop(nodes.v[1], "securityGroups") = Arr(<<>>)
    /\ HeaderIdx # {}
    /\ LinesStarting("  security_groups = [") = {}

(***************************************************************************)
(* Claims about the layout of the output                                    *)
(***************************************************************************)
FirstHeader == CHOOSE h \in HeaderIdx : \A k \in HeaderIdx : h <= k

\* every resource block but the last is followed by one blank line and the
\* header of the next block, and the last one ends the output
ResourceBlocksSpaced ==
    \A h \in HeaderIdx :
        IF \E j \in HeaderIdx : j > h
        THEN /\ OutLines[BlockEnd(h) + 1] = <<>>
             /\ BlockEnd(h) + 2 \in HeaderIdx
        ELSE BlockEnd(h) = Len(OutLines)

\* the nodes of a supported kind, in input order
SupportedNodes ==
    LET Supported(n) == HasSupportedKind(n) IN SelectSeq(nodes.v, Supported)

\* the primary headers declare the supported nodes, in input order
PrimaryHeadersInNodeOrder ==
    /\ Cardinality(PrimaryHeaderIdx) = Len(SupportedNodes)
    /\ \A p \in PrimaryHeaderIdx :
          LET n == SupportedNodes[Cardinality({q \in PrimaryHeaderIdx : q <= p})]
          IN  /\ HeaderType(OutLines[p]) = TerraformType(Get(n, "type"))
              /\ HeaderName(OutLines[p]) = SanitizeCompute(LabelChars(n))

\* every node has an id, a non-empty label and properties, every edge is an
\* object, and a block was produced
BlocksProduced ==
    /\ Returned /\ ArrayInputs /\ HeaderIdx # {}
    /\ \A i \in NodeIdx :
           HasId(nodes.v[i]) /\ HasLabel(nodes.v[i]) /\ HasProperties(nodes.v[i])
    /\ \A k \in EdgeIdx : IsObject(edges.v[k])

\* the lines i+1..i+n of the output are blank and line i+n+1 is the first header
BlankLinesAfterTerraformBlock(n) ==
    /\ SubSeq(OutLines, 1, Len(generateTerraformBlock)) = generateTerraformBlock
    /\ FirstHeader = Len(generateTerraformBlock) + n + 1
    /\ \A i \in 1..n : OutLines[Len(generateTerraformBlock) + i] = <<>>

\* C23 as stated: when a block is produced, the per-node blocks appear in node
\* input order and any two consecutive top-level blocks of the output, the
\* terraform block included, are separated by exactly one blank line.
C23_OneBlankLineBetweenBlocks ==
    BlocksProduced =>
        /\ PrimaryHeadersInNodeOrder
        /\ ResourceBlocksSpaced
        /\ BlankLinesAfterTerraformBlock(1)

\* C23 (amended): when a block is produced, the per-node blocks appear in node
\* input order, any two consecutive resource blocks are separated by exactly
\* one blank line, and the terraform block is followed by three blank lines,
\* because an empty block is joined in after it.
C23_BlocksJoinedInOrder ==
    BlocksProduced =>
        /\ PrimaryHeadersInNodeOrder
        /\ ResourceBlocksSpaced
        /\ BlankLinesAfterTerraformBlock(3)

\* two nodes of different kinds gave at least three blocks after the terraform
\* block
C23_Witness ==
    /\ BlocksProduced /\ Len(nodes.v) = 2
    /\ Get(nodes.v[1], "type") # Get(nodes.v[2], "type")
    /\ Cardinality(PrimaryHeaderIdx) = 2
    /\ Cardinality(HeaderIdx) >= 3
    /\ ResourceBlocksSpaced

(***************************************************************************)
(* Claims about the braces of the output                                    *)
(***************************************************************************)
\* the pieces of the output that hold one '{' and no '}'
OpeningPieces ==
    {"{", "terraform {", "  required_providers {", "    aws = {", "\" {",
     "  tags = {", "  versioning_configuration {", "  rule {",
     "    apply_server_side_encryption_by_default {", "  cors_configuration {",
     "  attribute {", "  default_action {", "  visibility_config {"}

\* the pieces of the output that hold one '}' and no '{'
ClosingPieces == {"}", "  }", "    }"}

\* every other piece holds no brace, or '{}'
BraceDelta(piece) ==
    IF piece \in OpeningPieces THEN 1
    ELSE IF piece \in ClosingPieces THEN -1
    ELSE 0

RECURSIVE FlattenLines(_)
FlattenLines(ls) == IF ls = <<>> THEN <<>> ELSE Head(ls) \o FlattenLines(Tail(ls))

\* hasBalancedBraces of the test helpers: the count of '{' minus '}' never
\* goes below zero and ends at zero
RECURSIVE BalancedFrom(_, _)
BalancedFrom(ps, count) ==
    IF count < 0 THEN FALSE
    ELSE IF ps = <<>> THEN count = 0
    ELSE BalancedFrom(Tail(ps), count + BraceDelta(Head(ps)))

hasBalancedBraces(ls) == BalancedFrom(FlattenLines(ls), 0)

\* C24: for a node of a supported kind with a label of arbitrary characters,
\* the output has balanced braces: no prefix holds more '}' than '{', and the
\* totals are equal.
C24_BalancedBraces ==
    (Returned /\ ArrayInputs /\ \A i \in NodeIdx : WellFormed(nodes.v[i])) =>
        hasBalancedBraces(OutLines)

(***************************************************************************)
(* Claims about the type of a reference                                     *)
(***************************************************************************)
KindOf(n) == Get(n, "type").v[1]

\* 'aws_' followed by the kind
KindPrefixedType(kind) ==
    CASE kind = "ec2" -> "aws_ec2"
      [] kind = "s3" -> "aws_s3"
      [] kind = "rds" -> "aws_rds"
      [] kind = "lambda" -> "aws_lambda"
      [] kind = "vpc" -> "aws_vpc"
      [] kind = "alb" -> "aws_alb"
      [] kind = "apigateway" -> "aws_apigateway"
      [] kind = "dynamodb" -> "aws_dynamodb"
      [] kind = "waf" -> "aws_waf"

\* the type in the declaration header that each emitter writes
DeclaredType(kind) ==
    CASE kind = "ec2" -> "aws_instance"
      [] kind = "s3" -> "aws_s3_bucket"
      [] kind = "rds" -> "aws_db_instance"
      [] kind = "lambda" -> "aws_lambda_function"
      [] kind = "vpc" -> "aws_vpc"
      [] kind = "alb" -> "aws_lb"
      [] kind = "apigateway" -> "aws_apigatewayv2_api"
      [] kind = "dynamodb" -> "aws_dynamodb_table"
      [] kind = "waf" -> "aws_wafv2_web_acl"

\* the headers that declare node n with its declared type
DeclaredBlocks(n) ==
    {i \in HeaderIdx :
        /\ HeaderType(OutLines[i]) = DeclaredType(KindOf(n))
        /\ HeaderName(OutLines[i]) = SanitizeCompute(LabelChars(n))}

\* every edge between well-formed nodes gives, in each block declared for its
\* target, a reference to its source whose type is TypeFor(kind of the source)
ReferencesTyped(TypeFor(_)) ==
    (Returned /\ ArrayInputs /\ IdentifiableNodes) =>
        \A k \in EdgeIdx : \A si, ti \in NodeIdx :
            LET e == edges.v[k]
                sn == nodes.v[si]
                tn == nodes.v[ti]
            IN  ( /\ IsObject(e) /\ WellFormed(sn) /\ WellFormed(tn)
                  /\ Get(e, "source") = Get(sn, "id")
                  /\ Get(e, "target") = Get(tn, "id") ) =>
                \A i \in DeclaredBlocks(tn) :
                    \E x \in 1..Len(RefsOfBlock(i)) :
                        RefsOfBlock(i)[x]
                            = <<TypeFor(KindOf(sn)), ".">>
                                  \o SanitizeCompute(LabelChars(sn))

CurrentLabels ==
    IF IsArray(nodes) THEN {LabelChars(nodes.v[i]) : i \in 1..Len(nodes.v)} ELSE {}

\* C26: whatever calls of generateTerraform and clearGeneratorCaches came
\* before, a call generateTerraform(nodes, edges) returns the string (or raises
\* the error) that it gives on empty caches.
C26_CallsIndependent ==
    result.called =>
        LET fresh == generateTerraform(nodes, edges, <<>>, <<>>)
        IN  /\ result.threw = fresh.threw
            /\ result.value = fresh.value

\* a call returned a block with a depends_on line while the name cache held a
\* label that none of its nodes has, left there by an earlier call on the same
\* ids
C26_Witness ==
    /\ Returned /\ ArrayInputs /\ Len(edges.v) > 0
    /\ \E x \in 1..Len(sanitizedNameCache) :
          sanitizedNameCache[x].key \notin CurrentLabels
    /\ \E h \in HeaderIdx : DependsOnIdx(h) # {}

(***************************************************************************)
(* Claims about the canvas                                                  *)
(***************************************************************************)
\* every edge of the canvas starts and ends at a node of the canvas
EdgesAreValid ==
    \A k \in 1..Len(edges.v) :
        /\ Get(edges.v[k], "source") \in NodeIdsOf(nodes.v)
        /\ Get(edges.v[k], "target") \in NodeIdsOf(nodes.v)

\* a step that removes the last node with some id leaves no edge at that id
\* and does not leave it selected
DeleteCascades ==
    \A id \in NodeIdsOf(nodes.v) \ NodeIdsOf(nodes'.v) :
        /\ \A k \in 1..Len(edges'.v) :
              Get(edges'.v[k], "source") # id /\ Get(edges'.v[k], "target") # id
        /\ selectedNodeId' # id

\* C27: from the empty canvas, after any sequence of ADD_NODE, ADD_EDGE between
\* nodes of the canvas, DELETE_EDGE and DELETE_NODE, every edge's source and
\* target are ids of nodes of the canvas: DELETE_NODE(id) removes every edge
\* whose source or target is id and clears selectedNodeId when it equals id.
C27_EdgesStayValid == [](EdgesAreValid) /\ [][DeleteCascades]_vars

\* DELETE_NODE of the first node has just left a canvas with the second node
\* and its self-loop alone, and no selection
C27_Witness ==
    /\ result.called /\ result.action = Action("DELETE_NODE", Id1)
    /\ NodeIdsOf(nodes.v) = {Id2}
    /\ Len(edges.v) > 0 /\ EdgesAreValid
    /\ selectedNodeId = Null

(***************************************************************************)
(* Claims about the references and the declarations                         *)
(***************************************************************************)
\* the headers that declare the resource a reference names
DeclarationsOf(r) ==
    {h \in HeaderIdx :
        /\ HeaderType(OutLines[h]) = RefType(r)
        /\ HeaderName(OutLines[h]) = RefName(r)}

\* C28: every reference of a depends_on line of the output names a resource
\* that the output declares: a header with the type and the name of the
\* reference.
C28_ReferencesAreDeclared ==
    (Returned /\ ArrayInputs) =>
        \A h \in HeaderIdx : \A x \in 1..Len(RefsOfBlock(h)) :
            DeclarationsOf(RefsOfBlock(h)[x]) # {}

\* the nodes have pairwise distinct ids and pairwise distinct labels
DistinctIdsAndLabels ==
    /\ \A i \in NodeIdx : WellFormed(nodes.v[i])
    /\ \A i, j \in NodeIdx :
          i # j => /\ Get(nodes.v[i], "id") # Get(nodes.v[j], "id")
                   /\ LabelChars(nodes.v[i]) # LabelChars(nodes.v[j])

\* C29: for nodes with pairwise distinct ids and pairwise distinct labels, no
\* two declaration headers of the output have the same type and the same name.
C29_DeclarationsUnambiguous ==
    (Returned /\ ArrayInputs /\ DistinctIdsAndLabels) =>
        \A g, h \in HeaderIdx :
            g # h => \/ HeaderType(OutLines[g]) # HeaderType(OutLines[h])
                     \/ HeaderName(OutLines[g]) # HeaderName(OutLines[h])

(***************************************************************************)
(* Claims about the simulate endpoint                                       *)
(***************************************************************************)
\* some node of the request has kind s3 or ec2
SomeRiskyNode ==
    \E i \in 1..Len(nodes.v) :
        /\ IsObject(nodes.v[i])
        /\ Get(nodes.v[i], "type") \in {Str(<<"s3">>), Str(<<"ec2">>)}

IsNonEmptyString(x) == x.t = "string" /\ x.v # <<>>

\* an answer with 6 to 8 steps and a security_intercept whose detected is the
\* expected boolean and whose message and fix_action are non-empty strings
IsValidAnswer(v, expected) ==
    /\ v.t = "object"
    /\ IsArray(Get(v, "steps"))
    /\ Len(Get(v, "steps").v) >= 6 /\ Len(Get(v, "steps").v) <= 8
    /\ Get(v, "security_intercept").t = "object"
    /\ Get(Get(v, "security_intercept"), "detected") = Bool(expected)
    /\ IsNonEmptyString(Get(Get(v, "security_intercept"), "message"))
    /\ IsNonEmptyString(Get(Get(v, "security_intercept"), "fix_action"))

\* the model answered, validly or not, or the call timed out, failed
\* authentication or failed to parse
AnswerIsCovered ==
    result.answer.threw =>
        result.answer.error \in {"BedrockTimeoutError", "BedrockAuthError", "JSONParseError"}

\* C30: for a request whose nodes and edges are arrays, whether the model
\* answers validly or not, times out or fails authentication, the response is
\* a success whose security_intercept.detected says whether some node has kind
\* s3 or ec2 and whose steps number 6 to 8, and it is the fallback exactly when
\* the call failed or the answer was not valid.
C30_AlwaysSuccessPayload ==
    (result.called /\ ArrayInputs /\ AnswerIsCovered) =>
        /\ result.status = 200
        /\ Get(Get(result.body, "security_intercept"), "detected") = Bool(SomeRiskyNode)
        /\ Len(Get(result.body, "steps").v) >= 6
        /\ Len(Get(result.body, "steps").v) <= 8
        /\ (result.body = FallbackWithRisk(SomeRiskyNode))
             <=> (result.answer.threw
                    \/ ~IsValidAnswer(result.answer.value, SomeRiskyNode))

====
